---- MODULE Spec2Model ----
(***************************************************************************)
(* Model of the resume analysis pipeline of app.py: the response           *)
(* normalizer parse_ai_response, the model invoker get_gemini_response     *)
(* and the /analyze handler analyze_resume with its retry loop.            *)
(*                                                                         *)
(* A Python str is a sequence of one-character strings.  A Python value    *)
(* produced by json.loads is a record [t |-> type name, v |-> payload].    *)
(* Indices into a str are 0-based as in Python; Slice(s, a, b) is s[a:b].  *)
(***************************************************************************)
EXTENDS Integers, Sequences, FiniteSets, TLC

----------------------------------------------------------------------------
(* Python str primitives used by app.py *)

\* the backquote character, named because a backquote inside a string
\* literal upsets the parser
Backquote == "backquote"

Min(a, b) == IF a < b THEN a ELSE b

Max(a, b) == IF a > b THEN a ELSE b

\* s[i:i+1]: the character at 0-based index i, or "" past the end
At(s, i) == IF i >= 0 /\ i < Len(s) THEN s[i + 1] ELSE ""

\* s[a:b] for a, b >= 0
Slice(s, a, b) == SubSeq(s, a + 1, Min(b, Len(s)))

\* the least and the greatest element of a non-empty set of integers
MinOf(S) == CHOOSE x \in S : \A y \in S : x <= y

MaxOf(S) == 0 - MinOf({0 - x : x \in S})

\* the characters str.strip() removes (within the modelled alphabet)
IsSpace(c) == c \in {" ", "\t", "\n", "\r", "\f"}

\* str.strip(): from the first to the last character that is not whitespace
Strip(s) ==
    LET kept == {i \in 0..(Len(s) - 1) : ~IsSpace(s[i + 1])}
    IN  IF kept = {} THEN << >> ELSE Slice(s, MinOf(kept), MaxOf(kept) + 1)

\* s.startswith(p, i)
StartsWithAt(s, p, i) ==
    /\ i >= 0
    /\ i + Len(p) <= Len(s)
    /\ \A k \in 1..Len(p) : s[i + k] = p[k]

\* str.startswith(p)
StartsWith(s, p) == StartsWithAt(s, p, 0)

\* str.endswith(p)
EndsWith(s, p) == StartsWithAt(s, p, Len(s) - Len(p))

\* the indices from i on at which p occurs in s
Occurrences(s, p, i) == {k \in i..(Len(s) - Len(p)) : StartsWithAt(s, p, k)}

\* str.find(p, i): the lowest index of p in s[i:], or -1
FindFrom(s, p, i) ==
    IF Occurrences(s, p, i) = {} THEN -1 ELSE MinOf(Occurrences(s, p, i))

\* str.find(p)
Find(s, p) == FindFrom(s, p, 0)

\* str.rfind(p): the highest index of p in s, or -1
RFind(s, p) ==
    IF Occurrences(s, p, 0) = {} THEN -1 ELSE MaxOf(Occurrences(s, p, 0))

\* p in s
Contains(s, p) == Occurrences(s, p, 0) # {}

RECURSIVE ReplaceFrom(_, _, _, _)
ReplaceFrom(s, old, new, i) ==
    LET j == FindFrom(s, old, i)
    IN  IF j = -1 THEN Slice(s, i, Len(s))
        ELSE Slice(s, i, j) \o new \o ReplaceFrom(s, old, new, j + Len(old))

\* str.replace(old, new) for a non-empty old: every non-overlapping
\* occurrence, found from the left
Replace(s, old, new) ==
    IF Len(old) = 1 /\ Len(new) = 1
    THEN [k \in 1..Len(s) |-> IF s[k] = old[1] THEN new[1] ELSE s[k]]
    ELSE ReplaceFrom(s, old, new, 0)

\* s.count(c, 0, stop) for a character c
CountBefore(s, c, stop) == Cardinality({k \in 1..Min(stop, Len(s)) : s[k] = c})

RECURSIVE FlattenRange(_, _, _)
FlattenRange(pieces, lo, hi) ==
    IF lo > hi THEN << >>
    ELSE IF lo = hi THEN pieces[lo]
    ELSE FlattenRange(pieces, lo, (lo + hi) \div 2)
         \o FlattenRange(pieces, ((lo + hi) \div 2) + 1, hi)

\* "".join(pieces)
Flatten(pieces) == FlattenRange(pieces, 1, Len(pieces))

Digits == <<"0", "1", "2", "3", "4", "5", "6", "7", "8", "9">>

IsDigit(c) == \E d \in 1..10 : Digits[d] = c

DigitValue(c) == (CHOOSE d \in 1..10 : Digits[d] = c) - 1

RECURSIVE NatToStr(_)
NatToStr(n) ==
    IF n < 10 THEN <<Digits[n + 1]>>
    ELSE NatToStr(n \div 10) \o <<Digits[(n % 10) + 1]>>

\* str(n) for an int n
IntToStr(n) == IF n < 0 THEN <<"-">> \o NatToStr(0 - n) ELSE NatToStr(n)

RECURSIVE StrToNat(_, _)
StrToNat(s, acc) ==
    IF s = << >> THEN acc ELSE StrToNat(Tail(s), 10 * acc + DigitValue(Head(s)))

\* int(s) for s matching -?[0-9]+
StrToInt(s) ==
    IF s # << >> /\ Head(s) = "-" THEN 0 - StrToNat(Tail(s), 0) ELSE StrToNat(s, 0)

----------------------------------------------------------------------------
(* Python values *)

PyStr(s) == [t |-> "str", v |-> s]

PyInt(n) == [t |-> "int", v |-> n]

\* a float is carried as the text str() gives for it
PyFloat(text) == [t |-> "float", v |-> text]

PyBool(b) == [t |-> "bool", v |-> IF b THEN 1 ELSE 0]

PyNone == [t |-> "NoneType", v |-> 0]

PyList(items) == [t |-> "list", v |-> items]

\* a dict is the sequence of its <<key, value>> items in insertion order
PyDict(items) == [t |-> "dict", v |-> items]

\* isinstance(x, str)
IsInstanceStr(x) == x.t = "str"

HasKey(d, key) == \E i \in 1..Len(d.v) : d.v[i][1] = key

\* dict.get(key, default)
DictGet(d, key, default) ==
    IF HasKey(d, key)
    THEN d.v[CHOOSE i \in 1..Len(d.v) : d.v[i][1] = key][2]
    ELSE default

\* d[key] = value on the item sequence: a repeated key keeps its place and
\* takes the later value
DictSet(items, key, value) ==
    IF \E i \in 1..Len(items) : items[i][1] = key
    THEN [i \in 1..Len(items) |-> IF items[i][1] = key THEN <<key, value>> ELSE items[i]]
    ELSE Append(items, <<key, value>>)

\* the characters of repr(s) between the quotes
ReprStrBody(s, quote) ==
    Flatten([k \in 1..Len(s) |->
        LET c == s[k]
        IN  IF c = quote THEN <<"\\", c>>
            ELSE IF c = "\\" THEN <<"\\","\\">>
            ELSE IF c = "\n" THEN <<"\\","n">>
            ELSE IF c = "\t" THEN <<"\\","t">>
            ELSE IF c = "\r" THEN <<"\\","r">>
            ELSE IF c = "\f" THEN <<"\\","x","0","c">>
            ELSE <<c>>])

\* repr(s) for a str s: single quotes, unless s has a single quote and no
\* double quote
ReprStr(s) ==
    LET quote == IF Contains(s, <<"'">>) /\ ~Contains(s, <<"\"">>) THEN "\"" ELSE "'"
    IN  <<quote>> \o ReprStrBody(s, quote) \o <<quote>>

RECURSIVE PyRepr(_)
RECURSIVE ReprItems(_, _)
RECURSIVE ReprPairs(_, _)
\* repr(x)
PyRepr(x) ==
    CASE x.t = "str" -> ReprStr(x.v)
      [] x.t = "int" -> IntToStr(x.v)
      [] x.t = "float" -> x.v
      [] x.t = "bool" -> IF x.v = 1 THEN <<"T","r","u","e">> ELSE <<"F","a","l","s","e">>
      [] x.t = "NoneType" -> <<"N","o","n","e">>
      [] x.t = "list" -> <<"[">> \o ReprItems(x.v, 1) \o <<"]">>
      [] x.t = "dict" -> <<"{">> \o ReprPairs(x.v, 1) \o <<"}">>

ReprItems(items, i) ==
    IF i > Len(items) THEN << >>
    ELSE (IF i > 1 THEN <<","," ">> ELSE << >>) \o PyRepr(items[i]) \o ReprItems(items, i + 1)

ReprPairs(items, i) ==
    IF i > Len(items) THEN << >>
    ELSE (IF i > 1 THEN <<","," ">> ELSE << >>)
         \o ReprStr(items[i][1]) \o <<":"," ">> \o PyRepr(items[i][2])
         \o ReprPairs(items, i + 1)

\* str(x): a str is itself, anything else is its repr
ToStr(x) == IF x.t = "str" THEN x.v ELSE PyRepr(x)

\* bool(x) for a str x, as in "not x"
Truthy(s) == s # << >>

----------------------------------------------------------------------------
(* json.loads, as called by parse_ai_response.  A scan returns             *)
(* [ok, val, end, msg]: on success val is the value and end the index      *)
(* after it; on failure msg is the JSONDecodeError message and end its     *)
(* position.                                                               *)

Ok(val, end) == [ok |-> TRUE, val |-> val, end |-> end, msg |-> << >>]

Err(msg, pos) == [ok |-> FALSE, val |-> PyNone, end |-> pos, msg |-> msg]

\* the JSON whitespace characters
IsJsonWs(c) == c \in {" ", "\t", "\n", "\r"}

\* WHITESPACE.match(s, i).end(): the first index from i on that holds no
\* whitespace
SkipWs(s, i) ==
    IF ~IsJsonWs(At(s, i)) THEN i
    ELSE MinOf({k \in i..Len(s) : ~IsJsonWs(At(s, k))})

\* characters below 0x20, which a strict JSON string may not contain
IsControl(c) == c \in {"\t", "\n", "\r", "\f"}

\* the one-character escapes of a JSON string.  The escapes \b and \uXXXX
\* decode to characters outside the modelled alphabet and are reported as
\* invalid; the input sets hold neither.
IsEscape(c) == c \in {"\"", "\\", "/", "n", "r", "t", "f"}

Unescape(c) ==
    CASE c = "n" -> "\n"
      [] c = "r" -> "\r"
      [] c = "t" -> "\t"
      [] c = "f" -> "\f"
      [] OTHER -> c

\* the first index from i on of a quote, a backslash or a control
\* character, or -1
StringStop(s, i) ==
    LET stops == {k \in i..(Len(s) - 1) : s[k + 1] \in {"\"", "\\"} \/ IsControl(s[k + 1])}
    IN  IF stops = {} THEN -1 ELSE MinOf(stops)

RECURSIVE ScanStringFrom(_, _, _, _)
ScanStringFrom(s, begin, i, acc) ==
    LET j == StringStop(s, i)
        c == At(s, j)
        chunk == acc \o Slice(s, i, j)
    IN  IF j = -1 THEN Err(<<"U","n","t","e","r","m","i","n","a","t","e","d"," ","s","t","r","i",
                             "n","g"," ","s","t","a","r","t","i","n","g"," ","a","t">>, begin)
        ELSE IF c = "\"" THEN Ok(PyStr(chunk), j + 1)
        ELSE IF c # "\\" THEN Err(<<"I","n","v","a","l","i","d"," ","c","o","n","t","r","o","l",
                                    " ","c","h","a","r","a","c","t","e","r"," ","a","t">>, j)
        ELSE IF j + 1 >= Len(s) THEN Err(<<"U","n","t","e","r","m","i","n","a","t","e","d"," ",
                                           "s","t","r","i","n","g"," ","s","t","a","r","t","i",
                                           "n","g"," ","a","t">>, begin)
        ELSE IF IsEscape(At(s, j + 1))
             THEN ScanStringFrom(s, begin, j + 2, Append(chunk, Unescape(At(s, j + 1))))
        ELSE Err(<<"I","n","v","a","l","i","d"," ","\\","e","s","c","a","p","e">>, j)

\* scanstring(s, end): end is the index after the opening quote
ScanString(s, end) == ScanStringFrom(s, end - 1, end, << >>)

\* the first index from i on that holds no digit
DigitsEnd(s, i) == MinOf({k \in i..Len(s) : ~IsDigit(At(s, k))})

\* NUMBER_RE.match(s, i): the end of (-?(?:0|[1-9]\d*)), or -1 for no match
IntEnd(s, i) ==
    LET j == IF At(s, i) = "-" THEN i + 1 ELSE i
    IN  IF At(s, j) = "0" THEN j + 1
        ELSE IF IsDigit(At(s, j)) THEN DigitsEnd(s, j)
        ELSE -1

\* the end of (\.\d+)? from i
FracEnd(s, i) ==
    IF At(s, i) = "." /\ IsDigit(At(s, i + 1)) THEN DigitsEnd(s, i + 1) ELSE i

\* the end of ([eE][-+]?\d+)? from i
ExpEnd(s, i) ==
    LET j == IF At(s, i + 1) \in {"-", "+"} THEN i + 2 ELSE i + 1
    IN  IF At(s, i) \in {"e", "E"} /\ IsDigit(At(s, j)) THEN DigitsEnd(s, j) ELSE i

RECURSIVE ScanOnce(_, _)
RECURSIVE JSONObjectLoop(_, _, _)
RECURSIVE JSONArrayLoop(_, _, _)

\* JSONObject((s, end)): end is the index after "{"
JSONObject(s, end) ==
    LET e == SkipWs(s, end)
    IN  IF At(s, e) = "}" THEN Ok(PyDict(<< >>), e + 1)
        ELSE IF At(s, e) # "\""
        THEN Err(<<"E","x","p","e","c","t","i","n","g"," ","p","r","o","p","e","r","t","y"," ",
                   "n","a","m","e"," ","e","n","c","l","o","s","e","d"," ","i","n"," ","d","o",
                   "u","b","l","e"," ","q","u","o","t","e","s">>, e)
        ELSE JSONObjectLoop(s, e + 1, << >>)

\* JSONObject's loop after a "," : the next key has to open at index more
ObjectMore(s, pairs, more) ==
    IF At(s, more) # "\""
    THEN Err(<<"E","x","p","e","c","t","i","n","g"," ","p","r","o","p","e","r","t","y"," ","n",
               "a","m","e"," ","e","n","c","l","o","s","e","d"," ","i","n"," ","d","o","u","b",
               "l","e"," ","q","u","o","t","e","s">>, more)
    ELSE JSONObjectLoop(s, more + 1, pairs)

\* JSONObject's loop after a value: "}" ends the object, "," goes on
ObjectNext(s, pairs, next) ==
    IF At(s, next) = "}" THEN Ok(PyDict(pairs), next + 1)
    ELSE IF At(s, next) # "," THEN Err(<<"E","x","p","e","c","t","i","n","g"," ","'",",","'"," ",
                                         "d","e","l","i","m","i","t","e","r">>, next)
    ELSE ObjectMore(s, pairs, SkipWs(s, next + 1))

\* JSONObject's loop with the scan of the value of key
ObjectValue(s, key, value, pairs) ==
    IF ~value.ok THEN value
    ELSE ObjectNext(s, DictSet(pairs, key, value.val), SkipWs(s, value.end))

\* JSONObject's loop after a key: the ":" has to be at index colon
ObjectColon(s, key, colon, pairs) ==
    IF At(s, colon) # ":" THEN Err(<<"E","x","p","e","c","t","i","n","g"," ","'",":","'"," ","d",
                                     "e","l","i","m","i","t","e","r">>, colon)
    ELSE ObjectValue(s, key, ScanOnce(s, SkipWs(s, colon + 1)), pairs)

\* JSONObject's loop with the scan of a key
ObjectKey(s, key, pairs) ==
    IF ~key.ok THEN key ELSE ObjectColon(s, key.val.v, SkipWs(s, key.end), pairs)

\* one turn of JSONObject's loop: end is the index after the opening quote
\* of a key
JSONObjectLoop(s, end, pairs) == ObjectKey(s, ScanString(s, end), pairs)

\* JSONArray((s, end)): end is the index after "["
JSONArray(s, end) ==
    LET e == SkipWs(s, end)
    IN  IF At(s, e) = "]" THEN Ok(PyList(<< >>), e + 1)
        ELSE JSONArrayLoop(s, e, << >>)

\* JSONArray's loop after a value: "]" ends the array, "," goes on
ArrayNext(s, values, next) ==
    IF At(s, next) = "]" THEN Ok(PyList(values), next + 1)
    ELSE IF At(s, next) # "," THEN Err(<<"E","x","p","e","c","t","i","n","g"," ","'",",","'"," ",
                                         "d","e","l","i","m","i","t","e","r">>, next)
    ELSE JSONArrayLoop(s, SkipWs(s, next + 1), values)

\* JSONArray's loop with the scan of a value
ArrayValue(s, value, values) ==
    IF ~value.ok THEN value
    ELSE ArrayNext(s, Append(values, value.val), SkipWs(s, value.end))

\* one turn of JSONArray's loop: end is the index of the next value
JSONArrayLoop(s, end, values) == ArrayValue(s, ScanOnce(s, end), values)

\* the number NUMBER_RE matches at idx, its integer part ending at i: an
\* int, or with a fraction or an exponent a float, carried by its text
ScanNumber(s, idx, i) ==
    LET x == ExpEnd(s, FracEnd(s, i))
    IN  IF x = i THEN Ok(PyInt(StrToInt(Slice(s, idx, i))), i)
        ELSE Ok(PyFloat(Slice(s, idx, x)), x)

\* scan_once(s, idx); its StopIteration is the JSONDecodeError
\* "Expecting value" every caller turns it into
ScanOnce(s, idx) ==
    LET c == At(s, idx)
    IN  IF idx >= Len(s) THEN Err(<<"E","x","p","e","c","t","i","n","g"," ","v","a","l","u","e">>, idx)
        ELSE IF c = "\"" THEN ScanString(s, idx + 1)
        ELSE IF c = "{" THEN JSONObject(s, idx + 1)
        ELSE IF c = "[" THEN JSONArray(s, idx + 1)
        ELSE IF StartsWithAt(s, <<"n","u","l","l">>, idx) THEN Ok(PyNone, idx + 4)
        ELSE IF StartsWithAt(s, <<"t","r","u","e">>, idx) THEN Ok(PyBool(TRUE), idx + 4)
        ELSE IF StartsWithAt(s, <<"f","a","l","s","e">>, idx) THEN Ok(PyBool(FALSE), idx + 5)
        ELSE IF IntEnd(s, idx) # -1 THEN ScanNumber(s, idx, IntEnd(s, idx))
        ELSE IF StartsWithAt(s, <<"N","a","N">>, idx) THEN Ok(PyFloat(<<"n","a","n">>), idx + 3)
        ELSE IF StartsWithAt(s, <<"I","n","f","i","n","i","t","y">>, idx) THEN Ok(PyFloat(<<"i",
                                                                                            "n",
                                                                                            "f">>), idx + 8)
        ELSE IF StartsWithAt(s, <<"-","I","n","f","i","n","i","t","y">>, idx) THEN Ok(PyFloat(<<"-",
                                                                                                "i",
                                                                                                "n",
                                                                                                "f">>), idx + 9)
        ELSE Err(<<"E","x","p","e","c","t","i","n","g"," ","v","a","l","u","e">>, idx)

\* the end of JSONDecoder.decode(s): after the value r only whitespace may
\* follow
DecodeEnd(s, r, end) ==
    IF end # Len(s) THEN Err(<<"E","x","t","r","a"," ","d","a","t","a">>, end) ELSE r

\* JSONDecoder.decode(s) with the scan r of the value
DecodeValue(s, r) == IF ~r.ok THEN r ELSE DecodeEnd(s, r, SkipWs(s, r.end))

\* JSONDecoder.decode(s): one value, with whitespace around it and nothing else
JsonDecode(s) == DecodeValue(s, ScanOnce(s, SkipWs(s, 0)))

\* str(JSONDecodeError(msg, doc, pos)): "msg: line L column C (char pos)"
JSONDecodeErrorStr(doc, msg, pos) ==
    LET lineno == CountBefore(doc, "\n", pos) + 1
        nl == RFind(Slice(doc, 0, pos), <<"\n">>)
        colno == IF nl = -1 THEN pos + 1 ELSE pos - nl
    IN  msg \o <<":"," ","l","i","n","e"," ">> \o IntToStr(lineno) \o <<" ","c","o","l","u","m",
                                                                        "n"," ">> \o IntToStr(colno)
            \o <<" ","(","c","h","a","r"," ">> \o IntToStr(pos) \o <<")">>

\* the outcome of json.loads(s) whose decode gave r
LoadsOutcome(s, r) ==
    IF r.ok THEN [raised |-> FALSE, value |-> r.val, error |-> << >>]
    ELSE [raised |-> TRUE, value |-> PyNone, error |-> JSONDecodeErrorStr(s, r.msg, r.end)]

\* json.loads(s): [raised |-> FALSE, value] or [raised |-> TRUE, error], the
\* text of the JSONDecodeError
json_loads(s) == LoadsOutcome(s, JsonDecode(s))

----------------------------------------------------------------------------
(* Outcomes of a Python call: it returns ret, or raises an exception whose *)
(* str() is exc.                                                           *)

Return(ret) == [raised |-> FALSE, ret |-> ret, exc |-> << >>]

Raise(exc) == [raised |-> TRUE, ret |-> << >>, exc |-> exc]

----------------------------------------------------------------------------
(* parse_ai_response *)

\* the length the fallback summary is cut to
SummaryLimit == 500

\* "Remove any markdown code blocks if present"
StripFences(response_text) ==
    IF StartsWith(response_text, <<Backquote,Backquote,Backquote,"j","s","o","n">>)
    THEN Strip(Replace(Replace(response_text, <<Backquote,Backquote,Backquote,"j","s","o","n">>, << >>), <<Backquote,
                                                                                                           Backquote,
                                                                                                           Backquote>>, << >>))
    ELSE IF StartsWith(response_text, <<Backquote,Backquote,Backquote>>)
    THEN Strip(Replace(response_text, <<Backquote,Backquote,Backquote>>, << >>))
    ELSE response_text

\* "try to fix common issues": single quotes to double quotes, then doubled
\* double quotes to one
RepairQuotes(json_str) ==
    Replace(Replace(json_str, <<"'">>, <<"\"">>), <<"\"", "\"">>, <<"\"">>)

\* the try/except around the first json.loads: a second json.loads on the
\* repaired text when the first raises JSONDecodeError
LoadRepaired(json_str, first) ==
    IF first.raised THEN json_loads(RepairQuotes(json_str)) ELSE first

\* json.loads(json_str) inside that try/except
LoadJson(json_str) == LoadRepaired(json_str, json_loads(json_str))

\* the texts json.loads is called with for json_str, in order: json_str,
\* and the repaired text after a JSONDecodeError
LoadTexts(json_str, first) ==
    IF first.raised THEN <<json_str, RepairQuotes(json_str)>> ELSE <<json_str>>

RECURSIVE SplitFrom(_, _, _)
SplitFrom(s, sep, i) ==
    LET j == FindFrom(s, <<sep>>, i)
    IN  IF j = -1 THEN <<Slice(s, i, Len(s))>>
        ELSE <<Slice(s, i, j)>> \o SplitFrom(s, sep, j + 1)

\* str.split(sep) for a one-character sep
Split(s, sep) == SplitFrom(s, sep, 0)

RECURSIVE StrippedNonEmpty(_)
StrippedNonEmpty(parts) ==
    IF parts = << >> THEN << >>
    ELSE (IF Strip(Head(parts)) # << >> THEN <<PyStr(Strip(Head(parts)))>> ELSE << >>)
         \o StrippedNonEmpty(Tail(parts))

\* SplitKeywords that neither trims the pieces nor drops the empty ones
SplitKeywordsNoTrim(missing_keywords) ==
    PyList([i \in 1..Len(Split(missing_keywords, ",")) |->
                PyStr(Split(missing_keywords, ",")[i])])

\* [kw.strip() for kw in missing_keywords.split(',') if kw.strip()]
SplitKeywords(missing_keywords) == PyList(StrippedNonEmpty(Split(missing_keywords, ",")))

\* "Ensure missing_keywords is a list"
EnsureList(missing_keywords) ==
    IF IsInstanceStr(missing_keywords)
    THEN SplitKeywords(missing_keywords.v)
    ELSE missing_keywords

KeyJDMatch == <<"J","D"," ","M","a","t","c","h">>

KeyJdMatchAlt == <<"j","d","_","m","a","t","c","h">>

KeyMissingKeywords == <<"M","i","s","s","i","n","g","K","e","y","w","o","r","d","s">>

KeyMissingKeywordsAlt == <<"m","i","s","s","i","n","g","_","k","e","y","w","o","r","d","s">>

KeyProfileSummary == <<"P","r","o","f","i","l","e"," ","S","u","m","m","a","r","y">>

KeyProfileSummaryAlt == <<"p","r","o","f","i","l","e","_","s","u","m","m","a","r","y">>

DefaultJdMatch == PyStr(<<"0","%">>)

DefaultMissingKeywords == PyList(<< >>)

DefaultProfileSummary == PyStr(<<"N","o"," ","s","u","m","m","a","r","y"," ","a","v","a","i","l",
                                 "a","b","l","e">>)

\* GetJdMatch that reads the primary key only
GetJdMatchPrimaryOnly(parsed_data) == DictGet(parsed_data, KeyJDMatch, DefaultJdMatch)

\* GetJdMatch that tries the secondary key first
GetJdMatchAltFirst(parsed_data) ==
    DictGet(parsed_data, KeyJdMatchAlt, DictGet(parsed_data, KeyJDMatch, DefaultJdMatch))

\* "Extract data with fallbacks": the primary key, else the secondary key,
\* else the default
GetJdMatch(parsed_data) ==
    DictGet(parsed_data, KeyJDMatch, DictGet(parsed_data, KeyJdMatchAlt, DefaultJdMatch))

\* GetMissingKeywords with the secondary key misspelt
GetMissingKeywordsTypo(parsed_data) ==
    DictGet(parsed_data, KeyMissingKeywords,
            DictGet(parsed_data, <<"m","i","s","s","i","n","g","_","k","e","y","w","o","r","d">>, DefaultMissingKeywords))

GetMissingKeywords(parsed_data) ==
    DictGet(parsed_data, KeyMissingKeywords,
            DictGet(parsed_data, KeyMissingKeywordsAlt, DefaultMissingKeywords))

\* GetProfileSummary that reads the secondary key only
GetProfileSummaryAltOnly(parsed_data) ==
    DictGet(parsed_data, KeyProfileSummaryAlt, DefaultProfileSummary)

GetProfileSummary(parsed_data) ==
    DictGet(parsed_data, KeyProfileSummary,
            DictGet(parsed_data, KeyProfileSummaryAlt, DefaultProfileSummary))

\* the result dict built from a parsed JSON value; .get on a value that is
\* not a dict raises AttributeError
BuildResult(parsed_data) ==
    IF parsed_data.t # "dict"
    THEN Raise(<<"o","b","j","e","c","t"," ","h","a","s"," ","n","o"," ","a","t","t","r","i","b",
                 "u","t","e"," ","'","g","e","t","'">>)
    ELSE Return([jd_match |-> PyStr(ToStr(GetJdMatch(parsed_data))),
                 missing_keywords |-> EnsureList(GetMissingKeywords(parsed_data)),
                 profile_summary |-> PyStr(ToStr(GetProfileSummary(parsed_data)))])

\* TruncateSummary that cuts without the marker
TruncateSummaryNoMarker(response_text) ==
    IF Len(response_text) > SummaryLimit
    THEN Slice(response_text, 0, SummaryLimit)
    ELSE response_text

\* response_text[:500] + "..." if len(response_text) > 500 else response_text
TruncateSummary(response_text) ==
    IF Len(response_text) > SummaryLimit
    THEN Slice(response_text, 0, SummaryLimit) \o <<".",".",".">>
    ELSE response_text

\* the dict returned when no JSON structure is found
NoJsonResult(response_text) ==
    [jd_match |-> PyStr(<<"0","%">>),
     missing_keywords |-> PyList(<< >>),
     profile_summary |-> PyStr(TruncateSummary(response_text))]

\* ErrorResult whose diagnostic does not hold the word the handler looks for
ErrorResultPlainDiagnostic(exc) ==
    [jd_match |-> PyStr(<<"0","%">>),
     missing_keywords |-> PyList(<< >>),
     profile_summary |-> PyStr(<<"C","o","u","l","d"," ","n","o","t"," ","p","a","r","s","e"," ",
                                 "r","e","s","p","o","n","s","e",":"," ">> \o exc)]

\* ErrorResult without the zero score
ErrorResultNoScore(exc) ==
    [jd_match |-> PyStr(<<"N","/","A">>),
     missing_keywords |-> PyList(<< >>),
     profile_summary |-> PyStr(<<"E","r","r","o","r"," ","p","a","r","s","i","n","g"," ","r","e",
                                 "s","p","o","n","s","e",":"," ">> \o exc)]

\* the dict returned by the except clause
ErrorResult(exc) ==
    [jd_match |-> PyStr(<<"0","%">>),
     missing_keywords |-> PyList(<< >>),
     profile_summary |-> PyStr(<<"E","r","r","o","r"," ","p","a","r","s","i","n","g"," ","r","e",
                                 "s","p","o","n","s","e",":"," ">> \o exc)]

\* the branch taken when the JSON text has been loaded or has failed to
ParseLoaded(loaded) ==
    IF loaded.raised THEN Raise(loaded.error) ELSE BuildResult(loaded.value)

\* "Try to find JSON structure in the response": the branch on the indices
ParseCandidate(response_text, start_idx, end_idx) ==
    IF start_idx # -1 /\ end_idx # -1
    THEN ParseLoaded(LoadJson(Slice(response_text, start_idx, end_idx)))
    ELSE Return(NoJsonResult(response_text))

\* the try block from the search for the braces on
ParseCleaned(response_text) ==
    ParseCandidate(response_text, Find(response_text, <<"{">>),
                   RFind(response_text, <<"}">>) + 1)

\* the body of the try block of parse_ai_response
ParseBody(response_text) == ParseCleaned(StripFences(Strip(response_text)))

\* the texts json.loads is called with when the try block runs on the
\* cleaned text: none when no JSON structure is found
LoadCandidate(response_text, start_idx, end_idx) ==
    IF start_idx # -1 /\ end_idx # -1
    THEN LoadTexts(Slice(response_text, start_idx, end_idx),
                   json_loads(Slice(response_text, start_idx, end_idx)))
    ELSE << >>

LoadCleaned(response_text) ==
    LoadCandidate(response_text, Find(response_text, <<"{">>),
                  RFind(response_text, <<"}">>) + 1)

\* the texts json.loads is called with during parse_ai_response(response_text)
LoadAttempts(response_text) == LoadCleaned(StripFences(Strip(response_text)))

\* CatchAll with an except clause that catches nothing
CatchAllNothing(body) == body

\* the except clause: whatever the try block raises is caught and turned
\* into the default structure
CatchAll(body) == IF body.raised THEN Return(ErrorResult(body.exc)) ELSE body

\* parse_ai_response(response_text)
parse_ai_response(response_text) == CatchAll(ParseBody(response_text))

----------------------------------------------------------------------------
(* get_gemini_response *)

\* What the provider does with one request: generate_content raises
\* (a transport or a provider error with a cause), or the response carries
\* a text, possibly empty.
ProviderText(text) == [kind |-> "text", text |-> text]

ProviderError(kind, cause) == [kind |-> kind, text |-> cause]

\* get_gemini_response that hands an error of the provider back as the text
get_gemini_responseProviderErrorAsText(input_text, outcome) ==
    IF outcome.kind = "transport"
    THEN Raise(<<"A","I"," ","m","o","d","e","l"," ","e","r","r","o","r",":"," ">> \o outcome.text)
    ELSE IF ~Truthy(outcome.text)
    THEN Raise(<<"A","I"," ","m","o","d","e","l"," ","e","r","r","o","r",":"," ">> \o <<"E","m",
                                                                                        "p","t",
                                                                                        "y"," ",
                                                                                        "r","e",
                                                                                        "s","p",
                                                                                        "o","n",
                                                                                        "s","e",
                                                                                        " ","f",
                                                                                        "r","o",
                                                                                        "m"," ",
                                                                                        "A","I",
                                                                                        " ","m",
                                                                                        "o","d",
                                                                                        "e","l">>)
    ELSE Return(outcome.text)

\* get_gemini_response without the check of an empty text
get_gemini_responseNoEmptyCheck(input_text, outcome) ==
    IF outcome.kind # "text"
    THEN Raise(<<"A","I"," ","m","o","d","e","l"," ","e","r","r","o","r",":"," ">> \o outcome.text)
    ELSE Return(outcome.text)

\* get_gemini_response(input_text) when the provider's outcome is the given one:
\* every exception of the try block, the one raised for an empty text
\* included, is raised again as "AI model error: ..."
get_gemini_response(input_text, outcome) ==
    IF outcome.kind # "text"
    THEN Raise(<<"A","I"," ","m","o","d","e","l"," ","e","r","r","o","r",":"," ">> \o outcome.text)
    ELSE IF ~Truthy(outcome.text)
    THEN Raise(<<"A","I"," ","m","o","d","e","l"," ","e","r","r","o","r",":"," ">> \o <<"E","m",
                                                                                        "p","t",
                                                                                        "y"," ",
                                                                                        "r","e",
                                                                                        "s","p",
                                                                                        "o","n",
                                                                                        "s","e",
                                                                                        " ","f",
                                                                                        "r","o",
                                                                                        "m"," ",
                                                                                        "A","I",
                                                                                        " ","m",
                                                                                        "o","d",
                                                                                        "e","l">>)
    ELSE Return(outcome.text)

----------------------------------------------------------------------------
(* json.dumps, used to write the JSON texts handed to the normalizer *)

\* the characters of a JSON string between the quotes
JsonStrBody(s) ==
    Flatten([k \in 1..Len(s) |->
        LET c == s[k]
        IN  IF c = "\"" THEN <<"\\","\"">>
            ELSE IF c = "\\" THEN <<"\\","\\">>
            ELSE IF c = "\n" THEN <<"\\","n">>
            ELSE IF c = "\t" THEN <<"\\","t">>
            ELSE IF c = "\r" THEN <<"\\","r">>
            ELSE IF c = "\f" THEN <<"\\","f">>
            ELSE <<c>>])

JsonStr(s) == <<"\"">> \o JsonStrBody(s) \o <<"\"">>

RECURSIVE JsonDumps(_)
RECURSIVE DumpItems(_, _)
RECURSIVE DumpPairs(_, _)
\* json.dumps(x)
JsonDumps(x) ==
    CASE x.t = "str" -> JsonStr(x.v)
      [] x.t = "int" -> IntToStr(x.v)
      [] x.t = "float" -> IF x.v = <<"n","a","n">> THEN <<"N","a","N">>
                          ELSE IF x.v = <<"i","n","f">> THEN <<"I","n","f","i","n","i","t","y">>
                          ELSE IF x.v = <<"-","i","n","f">> THEN <<"-","I","n","f","i","n","i",
                                                                   "t","y">>
                          ELSE x.v
      [] x.t = "bool" -> IF x.v = 1 THEN <<"t","r","u","e">> ELSE <<"f","a","l","s","e">>
      [] x.t = "NoneType" -> <<"n","u","l","l">>
      [] x.t = "list" -> <<"[">> \o DumpItems(x.v, 1) \o <<"]">>
      [] x.t = "dict" -> <<"{">> \o DumpPairs(x.v, 1) \o <<"}">>

DumpItems(items, i) ==
    IF i > Len(items) THEN << >>
    ELSE (IF i > 1 THEN <<","," ">> ELSE << >>) \o JsonDumps(items[i]) \o DumpItems(items, i + 1)

DumpPairs(items, i) ==
    IF i > Len(items) THEN << >>
    ELSE (IF i > 1 THEN <<","," ">> ELSE << >>)
         \o JsonStr(items[i][1]) \o <<":"," ">> \o JsonDumps(items[i][2])
         \o DumpPairs(items, i + 1)

\* the dict parse_ai_response returns, as a value json.dumps can write
ResultDict(r) ==
    PyDict(<< <<KeyJdMatchAlt, r.jd_match>>,
              <<KeyMissingKeywordsAlt, r.missing_keywords>>,
              <<KeyProfileSummaryAlt, r.profile_summary>> >>)

\* input_prompt up to {text}
PromptHead ==
    <<"\n","Y","o","u"," ","a","r","e"," ","a","n"," ","e","x","p","e","r","t"," ","A","T","S",
      " ","(","A","p","p","l","i","c","a","t","i","o","n"," ","T","r","a","c","k","i","n","g"," ",
      "S","y","s","t","e","m",")"," ","a","n","a","l","y","z","e","r"," ","w","i","t","h"," ","d",
      "e","e","p"," ","k","n","o","w","l","e","d","g","e"," ","i","n"," ","t","e","c","h","n","o",
      "l","o","g","y",","," ","s","o","f","t","w","a","r","e"," ","e","n","g","i","n","e","e","r",
      "i","n","g",","," ","d","a","t","a"," ","s","c","i","e","n","c","e",","," ","a","n","d"," ",
      "d","a","t","a"," ","a","n","a","l","y","t","i","c","s",".","\n","\n","Y","o","u","r"," ",
      "t","a","s","k"," ","i","s"," ","t","o"," ","a","n","a","l","y","z","e"," ","a"," ","r","e",
      "s","u","m","e"," ","a","g","a","i","n","s","t"," ","a"," ","j","o","b"," ","d","e","s","c",
      "r","i","p","t","i","o","n"," ","a","n","d"," ","p","r","o","v","i","d","e"," ","a"," ","d",
      "e","t","a","i","l","e","d"," ","e","v","a","l","u","a","t","i","o","n",".","\n","\n","R",
      "E","S","U","M","E"," ","T","E","X","T",":","\n">>

\* input_prompt between {text} and {jd}
PromptMid ==
    <<"\n","\n","J","O","B"," ","D","E","S","C","R","I","P","T","I","O","N",":","\n">>

\* input_prompt after {jd}, its {{ and }} written as format() writes them
PromptTail ==
    <<"\n","\n","P","l","e","a","s","e"," ","a","n","a","l","y","z","e"," ","t","h","e"," ","r",
      "e","s","u","m","e"," ","a","n","d"," ","p","r","o","v","i","d","e"," ","y","o","u","r"," ",
      "r","e","s","p","o","n","s","e"," ","i","n"," ","t","h","e"," ","f","o","l","l","o","w","i",
      "n","g"," ","E","X","A","C","T"," ","J","S","O","N"," ","f","o","r","m","a","t"," ","(","n",
      "o"," ","a","d","d","i","t","i","o","n","a","l"," ","t","e","x","t"," ","b","e","f","o","r",
      "e"," ","o","r"," ","a","f","t","e","r",")",":","\n","\n","{","\n"," "," ","\"","J","D"," ",
      "M","a","t","c","h","\"",":"," ","\"","X","X","%","\"",",","\n"," "," ","\"","M","i","s",
      "s","i","n","g","K","e","y","w","o","r","d","s","\"",":"," ","[","\"","k","e","y","w","o",
      "r","d","1","\"",","," ","\"","k","e","y","w","o","r","d","2","\"",","," ","\"","k","e","y",
      "w","o","r","d","3","\"","]",",","\n"," "," ","\"","P","r","o","f","i","l","e"," ","S","u",
      "m","m","a","r","y","\"",":"," ","\"","D","e","t","a","i","l","e","d"," ","a","n","a","l",
      "y","s","i","s"," ","o","f"," ","t","h","e"," ","c","a","n","d","i","d","a","t","e","'","s",
      " ","p","r","o","f","i","l","e",","," ","s","t","r","e","n","g","t","h","s",","," ","a","n",
      "d"," ","a","r","e","a","s"," ","f","o","r"," ","i","m","p","r","o","v","e","m","e","n","t",
      " ","b","a","s","e","d"," ","o","n"," ","t","h","e"," ","j","o","b"," ","r","e","q","u","i",
      "r","e","m","e","n","t","s",".","\"","\n","}","\n","\n","I","n","s","t","r","u","c","t","i",
      "o","n","s",":","\n","1","."," ","C","a","l","c","u","l","a","t","e"," ","a"," ","p","e",
      "r","c","e","n","t","a","g","e"," ","m","a","t","c","h"," ","(","0","-","1","0","0","%",")",
      " ","b","a","s","e","d"," ","o","n"," ","h","o","w"," ","w","e","l","l"," ","t","h","e"," ",
      "r","e","s","u","m","e"," ","a","l","i","g","n","s"," ","w","i","t","h"," ","t","h","e"," ",
      "j","o","b"," ","r","e","q","u","i","r","e","m","e","n","t","s","\n","2","."," ","I","d",
      "e","n","t","i","f","y"," ","3","-","8"," ","i","m","p","o","r","t","a","n","t"," ","m","i",
      "s","s","i","n","g"," ","k","e","y","w","o","r","d","s"," ","t","h","a","t"," ","w","o","u",
      "l","d"," ","i","m","p","r","o","v","e"," ","t","h","e"," ","r","e","s","u","m","e","'","s",
      " ","A","T","S"," ","s","c","o","r","e","\n","3","."," ","P","r","o","v","i","d","e"," ",
      "a"," ","c","o","m","p","r","e","h","e","n","s","i","v","e"," ","p","r","o","f","i","l","e",
      " ","s","u","m","m","a","r","y"," ","(","2","-","3"," ","s","e","n","t","e","n","c","e","s",
      ")"," ","h","i","g","h","l","i","g","h","t","i","n","g"," ","s","t","r","e","n","g","t","h",
      "s"," ","a","n","d"," ","i","m","p","r","o","v","e","m","e","n","t"," ","a","r","e","a","s",
      "\n","4","."," ","R","e","s","p","o","n","d"," ","O","N","L","Y"," ","w","i","t","h"," ",
      "t","h","e"," ","J","S","O","N"," ","o","b","j","e","c","t",","," ","n","o"," ","a","d","d",
      "i","t","i","o","n","a","l"," ","t","e","x","t","\n">>

----------------------------------------------------------------------------
(* The /analyze handler *)

\* max_retries of the retry loop
max_retries == 2

\* FormatPrompt that leaves the job description out
FormatPromptNoJd(text, jd) == PromptHead \o text \o PromptMid \o PromptTail

\* input_prompt.format(text=resume_text, jd=job_description)
FormatPrompt(text, jd) == PromptHead \o text \o PromptMid \o jd \o PromptTail

\* str.lower(), on the letters of the modelled file names and emails
Lower(s) ==
    [i \in 1..Len(s) |->
        CASE s[i] = "P" -> "p"
          [] s[i] = "A" -> "a"
          [] s[i] = "B" -> "b"
          [] s[i] = "X" -> "x"
          [] s[i] = "D" -> "d"
          [] s[i] = "F" -> "f"
          [] s[i] = "C" -> "c"
          [] s[i] = "V" -> "v"
          [] OTHER -> s[i]]

\* IsPdfName that accepts ".pdf" anywhere in the name
IsPdfNameAnywhere(filename) == Contains(Lower(filename), <<".","p","d","f">>)

\* resume_file.filename.lower().endswith('.pdf')
IsPdfName(filename) == EndsWith(Lower(filename), <<".","p","d","f">>)

\* LastAttempt that gives up one attempt early
LastAttemptEarly(a) == a = max_retries - 1

\* "if attempt == max_retries": the attempt after which the loop gives up
LastAttempt(a) == a = max_retries

\* bool(x) is False: None, an empty str, list or dict, zero
Falsy(x) ==
    CASE x.t = "NoneType" -> TRUE
      [] x.t \in {"str", "list", "dict"} -> x.v = << >>
      [] x.t \in {"int", "bool"} -> x.v = 0
      [] OTHER -> FALSE

\* jsonify(body), status: the response of the handler
Response(status, body) == [status |-> status, body |-> body]

ErrorBody(message) == [error |-> PyStr(message)]

NoResponse == Response(0, << >>)

\* ExhaustedFallback answered as an error of the service
ExhaustedFallbackAsError(text) ==
    Response(503,
        [error |-> PyStr(<<"A","I"," ","s","e","r","v","i","c","e"," ","u","n","a","v","a","i",
                           "l","a","b","l","e">>)])

\* the response returned when every attempt has failed
ExhaustedFallback(text) ==
    Response(200,
        [jd_match |-> PyStr(<<"5","0","%">>),
         missing_keywords |-> PyList(<<PyStr(<<"U","n","a","b","l","e"," ","t","o"," ","a","n",
                                               "a","l","y","z","e"," ","-"," ","A","I"," ","s",
                                               "e","r","v","i","c","e"," ","u","n","a","v","a",
                                               "i","l","a","b","l","e">>)>>),
         profile_summary |-> PyStr(
             <<"A","n","a","l","y","s","i","s"," ","t","e","m","p","o","r","a","r","i","l","y",
               " ","u","n","a","v","a","i","l","a","b","l","e"," ","d","u","e"," ","t","o"," ",
               "A","I"," ","s","e","r","v","i","c","e"," ","i","s","s","u","e","s","."," ","R",
               "e","s","u","m","e"," ","c","o","n","t","a","i","n","s"," ">>
             \o IntToStr(Len(text))
             \o <<" ","c","h","a","r","a","c","t","e","r","s"," ","o","f"," ","t","e","x","t",".",
                  " ","P","l","e","a","s","e"," ","t","r","y"," ","a","g","a","i","n"," ","l","a",
                  "t","e","r",".">>)])

\* the response returned when ai_response is empty after the loop
NoResponseFallback ==
    Response(500,
        [jd_match |-> PyStr(<<"0","%">>),
         missing_keywords |-> PyList(<<PyStr(<<"A","n","a","l","y","s","i","s"," ","f","a","i",
                                               "l","e","d">>)>>),
         profile_summary |-> PyStr(
             <<"U","n","a","b","l","e"," ","t","o"," ","a","n","a","l","y","z","e"," ","r","e",
               "s","u","m","e"," ","a","t"," ","t","h","i","s"," ","t","i","m","e","."," ","P",
               "l","e","a","s","e"," ","t","r","y"," ","a","g","a","i","n"," ","l","a","t","e",
               "r",".">>)])

\* the response of the handler's own except clause
InternalError(exc) ==
    Response(500,
        [error |-> PyStr(exc),
         jd_match |-> PyStr(<<"0","%">>),
         missing_keywords |-> PyList(<< >>),
         profile_summary |-> PyStr(
             <<"A","n"," ","e","r","r","o","r"," ","o","c","c","u","r","r","e","d"," ","d","u",
               "r","i","n","g"," ","a","n","a","l","y","s","i","s","."," ","P","l","e","a","s",
               "e"," ","t","r","y"," ","a","g","a","i","n",".">>)])

\* the summary put in place of an empty or error summary of a zero match
CompletedSummary(text) ==
    PyStr(<<"R","e","s","u","m","e"," ","a","n","a","l","y","s","i","s"," ","c","o","m","p","l",
            "e","t","e","d","."," ","T","h","e"," ","d","o","c","u","m","e","n","t"," ","c","o",
            "n","t","a","i","n","s"," ">>
          \o IntToStr(Len(text)) \o <<" ","c","h","a","r","a","c","t","e","r","s"," ","o","f"," ",
                                      "p","r","o","f","e","s","s","i","o","n","a","l"," ","c","o",
                                      "n","t","e","n","t",".">>)

\* ValidateParsed that puts the placeholder in every response
ValidateParsedEverySummary(parsed, text) ==
    [parsed EXCEPT !.profile_summary = CompletedSummary(text)]

\* ValidateParsed that resets the match of every response
ValidateParsedResetsMatch(parsed, text) ==
    [parsed EXCEPT !.jd_match = PyStr(<<"0","%">>)]

\* "Validate the parsed response"
ValidateParsed(parsed, text) ==
    IF (Falsy(parsed.jd_match) \/ parsed.jd_match = PyStr(<<"0","%">>))
       /\ (Falsy(parsed.profile_summary) \/ Contains(parsed.profile_summary.v, <<"E","r","r","o",
                                                                                 "r">>))
    THEN [parsed EXCEPT !.profile_summary = CompletedSummary(text)]
    ELSE parsed

\* extract_pdf_text(file_stream) when PdfReader behaves as given: the
\* text of the pages, or an exception raised again as "PDF processing error"
extract_pdf_text(outcome) ==
    IF outcome.raises
    THEN Raise(<<"P","D","F"," ","p","r","o","c","e","s","s","i","n","g"," ","e","r","r","o","r",
                 ":"," ">> \o outcome.text)
    ELSE Return(outcome.text)

----------------------------------------------------------------------------
(* Bounded inputs *)

\* the longest raw text drawn character by character
MaxRawLen == 3

\* the characters those raw texts are drawn from
RawAlphabet == {"{", "}", "\"", ":", "a", "1", " "}

\* every text of at most MaxRawLen characters of RawAlphabet
ShortTexts == UNION {[1..k -> RawAlphabet] : k \in 0..MaxRawLen}

\* model outputs of the shapes the normalizer is written for
SampleTexts ==
    { <<"{","\"","J","D"," ","M","a","t","c","h","\"",":","\"","6","0","%","\"",",","\"","M","i",
        "s","s","i","n","g","K","e","y","w","o","r","d","s","\"",":","[","\"","A","W","S","\"",
        ",","\"","K","u","b","e","r","n","e","t","e","s","\"","]",",","\"","P","r","o","f","i",
        "l","e"," ","S","u","m","m","a","r","y","\"",":","\"","G","o","o","d"," ","b","a","c","k",
        "e","n","d"," ","f","i","t","\"","}">>,
      <<Backquote,Backquote,Backquote,"j","s","o","n","\n","{","'","J","D"," ","M","a","t","c",
        "h","'",":","'","4","0","%","'",",","'","M","i","s","s","i","n","g","K","e","y","w","o",
        "r","d","s","'",":","[","]",",","'","P","r","o","f","i","l","e"," ","S","u","m","m","a",
        "r","y","'",":","'","N","e","e","d","s"," ","m","o","r","e"," ","c","l","o","u","d"," ",
        "e","x","p","e","r","i","e","n","c","e","'","}","\n",Backquote,Backquote,Backquote>>,
      <<"I"," ","c","a","n","n","o","t"," ","p","r","o","c","e","s","s"," ","t","h","i","s"," ",
        "r","e","q","u","e","s","t",".">>,
      <<"H","e","r","e"," ","i","s"," ","t","h","e"," ","r","e","s","u","l","t",":"," ","{","\"",
        "j","d","_","m","a","t","c","h","\"",":"," ","\"","7","5","%","\"",","," ","\"","m","i",
        "s","s","i","n","g","_","k","e","y","w","o","r","d","s","\"",":"," ","\"","P","y","t","h",
        "o","n",","," ","D","o","c","k","e","r",","," "," ","A","W","S","\"","}"," ","T","h","a",
        "n","k","s",".">>,
      <<Backquote,Backquote,Backquote,"\n","{","\"","J","D"," ","M","a","t","c","h","\"",":"," ",
        "8","0",","," ","\"","M","i","s","s","i","n","g","K","e","y","w","o","r","d","s","\"",":",
        " ","n","u","l","l","}","\n",Backquote,Backquote,Backquote>>,
      <<"{","\"","J","D"," ","M","a","t","c","h","\"",":"," ","\"","1","0","%","\"",","," ","\"",
        "M","i","s","s","i","n","g","K","e","y","w","o","r","d","s","\"",":"," ","[","\"","A","W",
        "S","\"",",","]","}">>,
      <<"{","\"","J","D"," ","M","a","t","c","h","\"",":"," ","\"","1","0","%","\""," ","\"","M",
        "i","s","s","i","n","g","K","e","y","w","o","r","d","s","\"",":"," ","[","]","}">>,
      <<"{","\"","P","r","o","f","i","l","e"," ","S","u","m","m","a","r","y","\"",":"," ","\"",
        "I","t","'","s"," ","f","i","n","e","\"",","," ","\"","J","D"," ","M","a","t","c","h",
        "\"",":"," ","t","r","u","}">>,
      <<"}"," ","n","o"," ","j","s","o","n"," ","h","e","r","e"," ","{">>,
      <<"E","r","r","o","r",":"," ","q","u","o","t","a"," ","e","x","c","e","e","d","e","d">>,
      <<"{","\"","J","D"," ","M","a","t","c","h","\"",":"," ","\"","0","%","\"",","," ","\"","P",
        "r","o","f","i","l","e"," ","S","u","m","m","a","r","y","\"",":"," ","\"","\"","}">>,
      <<" "," ","\n"," ">>,
      <<"{","\"","j","d","_","m","a","t","c","h","\"",":"," ","\"","1","0","%","\"",","," ","\"",
        "J","D"," ","M","a","t","c","h","\"",":"," ","\"","9","0","%","\"",","," ","\"","m","i",
        "s","s","i","n","g","_","k","e","y","w","o","r","d","s","\"",":"," ","[","\"","x","\"",
        "]",","," ","\"","M","i","s","s","i","n","g","K","e","y","w","o","r","d","s","\"",":"," ",
        "[","\"","y","\"","]",","," ","\"","p","r","o","f","i","l","e","_","s","u","m","m","a",
        "r","y","\"",":"," ","\"","s","e","c","o","n","d","\"",","," ","\"","P","r","o","f","i",
        "l","e"," ","S","u","m","m","a","r","y","\"",":"," ","\"","f","i","r","s","t","\"","}">>,
      <<"{","\"","J","D"," ","M","a","t","c","h","\"",":"," ","\"","7","0","%","\"",","," ","\"",
        "M","i","s","s","i","n","g","K","e","y","w","o","r","d","s","\"",":"," ","\"",",","a",",",
        ","," ","b"," ","c"," ",",","\"","}">>,
      <<"{","}">> }

\* a model output of n characters without any JSON in it
LongProse(n) == [i \in 1..n |-> IF i % 7 = 0 THEN " " ELSE Digits[(i % 10) + 1]]

\* outputs around the length at which the fallback summary is cut
LongTexts == { LongProse(SummaryLimit - 1), LongProse(SummaryLimit),
               LongProse(SummaryLimit + 1), LongProse(SummaryLimit + 20) }

RawTexts == ShortTexts \cup SampleTexts \cup LongTexts

\* the language tags of a fenced model output
FenceTags == { <<"j","s","o","n">>, <<"J","S","O","N">>, <<"t","e","x","t">> }

\* content wrapped in code-fence markers with a language tag
Fenced(tag, content) ==
    <<Backquote, Backquote, Backquote>> \o tag \o <<"\n">> \o content
        \o <<"\n", Backquote, Backquote, Backquote>>

\* a field the JSON object does not carry
Absent == [t |-> "absent", v |-> 0]

\* values the model may give the match field
MatchValues ==
    { PyStr(<<"6","0","%">>), PyStr(<<"0","%">>), PyStr(<< >>), PyInt(60), PyNone }

\* values the model may give the keyword field
KeywordValues ==
    { PyList(<<PyStr(<<"A","W","S">>), PyStr(<<"K","u","b","e","r","n","e","t","e","s">>)>>),
      PyList(<< >>),
      PyStr(<<"P","y","t","h","o","n",","," ","D","o","c","k","e","r",","," "," ","A","W","S">>),
      PyStr(<<",","a",",",","," ","b"," ","c"," ",",">>),
      PyStr(<<" ",","," ">>),
      PyInt(5),
      PyNone,
      PyBool(TRUE),
      PyDict(<< <<<<"s","k","i","l","l">>, PyStr(<<"A","W","S">>)>> >>),
      PyList(<<PyInt(1), PyStr(<<"A","W","S">>), PyNone>>) }

\* values the model may give the summary field
SummaryValues ==
    { PyStr(<<"G","o","o","d"," ","b","a","c","k","e","n","d"," ","f","i","t">>), PyStr(<< >>), PyStr(<<"E",
                                                                                                        "r",
                                                                                                        "r",
                                                                                                        "o",
                                                                                                        "r",
                                                                                                        ":",
                                                                                                        " ",
                                                                                                        "\"",
                                                                                                        "n",
                                                                                                        "/",
                                                                                                        "a",
                                                                                                        "\"">>),
      PyNone, PyList(<<PyStr(<<"i","t","'","s">>), PyInt(2)>>) }

\* the JSON object carrying the present fields under the given key names
FieldsObject(fields, kMatch, kKeywords, kSummary) ==
    PyDict((IF fields[1] = Absent THEN << >> ELSE << <<kMatch, fields[1]>> >>)
           \o (IF fields[2] = Absent THEN << >> ELSE << <<kKeywords, fields[2]>> >>)
           \o (IF fields[3] = Absent THEN << >> ELSE << <<kSummary, fields[3]>> >>))

\* the model's JSON text for the fields under the primary key names
PrimaryText(fields) ==
    JsonDumps(FieldsObject(fields, KeyJDMatch, KeyMissingKeywords, KeyProfileSummary))

\* the model's JSON text for the fields under the secondary key names
SecondaryText(fields) ==
    JsonDumps(FieldsObject(fields, KeyJdMatchAlt, KeyMissingKeywordsAlt,
                           KeyProfileSummaryAlt))

\* the same JSON text written with single quotes
SingleQuotedText(fields) == Replace(PrimaryText(fields), <<"\"">>, <<"'">>)

FieldTriples ==
    (MatchValues \cup {Absent}) \X (KeywordValues \cup {Absent})
        \X (SummaryValues \cup {Absent})

\* the job descriptions of the requests
JobDescriptions ==
    { << >>, <<" "," ","\n">>, <<"N","e","e","d"," ","P","y","t","h","o","n"," ","d","e","v","e",
                                 "l","o","p","e","r"," ","w","i","t","h"," ","F","l","a","s","k",
                                 ","," ","A","W","S",","," ","K","u","b","e","r","n","e","t","e",
                                 "s">> }

\* the file names of the uploaded resumes
Filenames == { << >>, <<"c","v",".","p","d","f">>, <<"C","V",".","P","D","F">>, <<"c","v",".","p",
                                                                                  "d","f",".","t",
                                                                                  "x","t">> }

\* what PdfReader does with the uploaded bytes
PdfOutcomes ==
    { [raises |-> TRUE, text |-> <<"E","O","F"," ","m","a","r","k","e","r"," ","n","o","t"," ",
                                   "f","o","u","n","d">>],
      [raises |-> FALSE, text |-> << >>],
      [raises |-> FALSE, text |-> <<" ","\n"," ">>],
      [raises |-> FALSE, text |-> <<"5"," ","y","e","a","r","s"," ","P","y","t","h","o","n",",",
                                    " ","F","l","a","s","k",","," ","D","o","c","k","e","r">>],
      [raises |-> FALSE, text |-> <<"P","y","t","h","o","n">>] }

\* the texts the provider answers with
ModelTexts ==
    { <<"{","\"","J","D"," ","M","a","t","c","h","\"",":","\"","6","0","%","\"",",","\"","M","i",
        "s","s","i","n","g","K","e","y","w","o","r","d","s","\"",":","[","\"","A","W","S","\"",
        ",","\"","K","u","b","e","r","n","e","t","e","s","\"","]",",","\"","P","r","o","f","i",
        "l","e"," ","S","u","m","m","a","r","y","\"",":","\"","G","o","o","d"," ","b","a","c","k",
        "e","n","d"," ","f","i","t","\"","}">>,
      <<Backquote,Backquote,Backquote,"j","s","o","n","\n","{","'","J","D"," ","M","a","t","c",
        "h","'",":","'","4","0","%","'",",","'","M","i","s","s","i","n","g","K","e","y","w","o",
        "r","d","s","'",":","[","]",",","'","P","r","o","f","i","l","e"," ","S","u","m","m","a",
        "r","y","'",":","'","N","e","e","d","s"," ","m","o","r","e"," ","c","l","o","u","d"," ",
        "e","x","p","e","r","i","e","n","c","e","'","}","\n",Backquote,Backquote,Backquote>>,
      <<"I"," ","c","a","n","n","o","t"," ","p","r","o","c","e","s","s"," ","t","h","i","s"," ",
        "r","e","q","u","e","s","t",".">>,
      <<"{","\"","J","D"," ","M","a","t","c","h","\"",":"," ","\"","1","0","%","\""," ","\"","M",
        "i","s","s","i","n","g","K","e","y","w","o","r","d","s","\"",":"," ","[","]","}">>,
      <<"{","\"","M","i","s","s","i","n","g","K","e","y","w","o","r","d","s","\"",":"," ","5",",",
        " ","\"","P","r","o","f","i","l","e"," ","S","u","m","m","a","r","y","\"",":"," ","\"",
        "\"","}">>,
      <<"E","r","r","o","r",":"," ","q","u","o","t","a"," ","e","x","c","e","e","d","e","d">>,
      <<" ">> }

\* what the provider does with one request
ProviderOutcomes ==
    { ProviderError("transport", <<"5","0","3"," ","S","e","r","v","i","c","e"," ","U","n","a",
                                   "v","a","i","l","a","b","l","e">>),
      ProviderError("provider", <<"4","2","9"," ","R","e","s","o","u","r","c","e"," ","e","x","h",
                                  "a","u","s","t","e","d">>),
      ProviderText(<< >>) }
    \cup { ProviderText(t) : t \in ModelTexts }

----------------------------------------------------------------------------
(* State *)

VARIABLES
    request,          \* the form and file of the /analyze request
    pdf,              \* what PdfReader does with the uploaded file
    pc,               \* where the handler is
    resume_text,      \* the extracted text
    formatted_prompt, \* the prompt built for the model
    attempt,          \* the loop variable of the retry loop
    ai_response,      \* the text of the successful attempt, None before
    builds,           \* how many times the prompt has been formatted
    sent,             \* the prompts sent to the model, in order
    failures,         \* the messages of the failed attempts, in order
    sleeps,           \* how many times time.sleep(1) has run
    normalized,       \* the texts passed to parse_ai_response, in order
    parsed_response,  \* what parse_ai_response returned to the handler
    response,         \* the response sent to the caller
    expired,          \* the caller's deadline has elapsed during the retry loop
    raw,              \* normalizer alone: the raw model output
    fields,           \* normalizer alone: the field values of a keyed object
    result,           \* normalizer alone: the outcome for raw
    alt_result,       \* normalizer alone: the outcome for the secondary keys
    loads,            \* normalizer alone: the texts given to json.loads for raw
    fenced,           \* normalizer alone: a language tag and the outcome for raw fenced
    again,            \* normalizer alone: the outcome for the result written as JSON
    quoted,           \* normalizer alone: the outcome for the single-quoted object
    calls,            \* concurrent requests: the local variables of each call
    users,            \* the documents of the users collection, in insertion order
    reviews,          \* the documents of the reviews collection, in insertion order
    born,             \* every review document as it was inserted, in insertion order
    deleted,          \* the ids of the users delete_user has returned True for
    now,              \* what datetime.utcnow() returns
    last,             \* the last call that returned, with its outcome
    inflight          \* the requests being served, each with its local variables

handlerVars ==
    <<request, pdf, pc, resume_text, formatted_prompt, attempt, ai_response, builds,
      sent, failures, sleeps, normalized, parsed_response, response, expired>>

normalizerVars == <<raw, fields, result, alt_result, loads, fenced, again, quoted>>

concurrentVars == <<calls>>

storeVars == <<users, reviews, born, deleted, now, last, inflight>>

vars == <<handlerVars, normalizerVars, concurrentVars, storeVars>>

\* no value yet
Unset == << >>

NoRequest ==
    [has_jd |-> FALSE, job_description |-> << >>, has_file |-> FALSE, filename |-> << >>]

\* the requests: a form with or without job_description, with or without a
\* resume file
Requests ==
    { r \in [has_jd : BOOLEAN, job_description : JobDescriptions,
             has_file : BOOLEAN, filename : Filenames] :
        /\ ~r.has_jd => r.job_description = << >>
        /\ ~r.has_file => r.filename = << >> }

HandlerIdle ==
    /\ request = NoRequest
    /\ pdf = [raises |-> FALSE, text |-> << >>]
    /\ pc = "idle"
    /\ resume_text = << >>
    /\ formatted_prompt = << >>
    /\ attempt = 0
    /\ ai_response = PyNone
    /\ builds = 0
    /\ sent = << >>
    /\ failures = << >>
    /\ sleeps = 0
    /\ normalized = << >>
    /\ parsed_response = Unset
    /\ response = NoResponse
    /\ expired = FALSE

NormalizerIdle ==
    /\ raw = << >>
    /\ fields = Unset
    /\ result = Unset
    /\ alt_result = Unset
    /\ loads = << >>
    /\ fenced = Unset
    /\ again = Unset
    /\ quoted = Unset

ConcurrentIdle == calls = << >>

\* no call of the models has returned yet
NoCall == [op |-> "", user_id |-> << >>, review_id |-> << >>, data |-> << >>, out |-> << >>]

StoreIdle ==
    /\ users = << >>
    /\ reviews = << >>
    /\ born = << >>
    /\ deleted = {}
    /\ now = 0
    /\ last = NoCall
    /\ inflight = << >>

----------------------------------------------------------------------------
(* analyze_resume, step by step *)

Init ==
    /\ request \in Requests
    /\ pdf \in PdfOutcomes
    /\ pc = "validate"
    /\ resume_text = << >>
    /\ formatted_prompt = << >>
    /\ attempt = 0
    /\ ai_response = PyNone
    /\ builds = 0
    /\ sent = << >>
    /\ failures = << >>
    /\ sleeps = 0
    /\ normalized = << >>
    /\ parsed_response = Unset
    /\ response = NoResponse
    /\ expired = FALSE
    /\ NormalizerIdle
    /\ ConcurrentIdle
    /\ StoreIdle

\* the handler returns
Respond(r) ==
    /\ response' = r
    /\ pc' = "done"

\* the checks of the form and the file, before anything is read
ValidateRequest ==
    /\ pc = "validate"
    /\ IF ~request.has_jd
       THEN Respond(Response(400, ErrorBody(<<"J","o","b"," ","d","e","s","c","r","i","p","t","i",
                                              "o","n"," ","i","s"," ","r","e","q","u","i","r","e",
                                              "d">>)))
       ELSE IF ~request.has_file
       THEN Respond(Response(400, ErrorBody(<<"R","e","s","u","m","e"," ","f","i","l","e"," ","i",
                                              "s"," ","r","e","q","u","i","r","e","d">>)))
       ELSE IF ~Truthy(Strip(request.job_description))
       THEN Respond(Response(400, ErrorBody(<<"J","o","b"," ","d","e","s","c","r","i","p","t","i",
                                              "o","n"," ","c","a","n","n","o","t"," ","b","e"," ",
                                              "e","m","p","t","y">>)))
       ELSE IF request.filename = << >>
       THEN Respond(Response(400, ErrorBody(<<"N","o"," ","r","e","s","u","m","e"," ","f","i","l",
                                              "e"," ","s","e","l","e","c","t","e","d">>)))
       ELSE IF ~IsPdfName(request.filename)
       THEN Respond(Response(400, ErrorBody(<<"O","n","l","y"," ","P","D","F"," ","f","i","l","e",
                                              "s"," ","a","r","e"," ","s","u","p","p","o","r","t",
                                              "e","d">>)))
       ELSE pc' = "extract" /\ UNCHANGED response
    /\ UNCHANGED <<expired, request, pdf, resume_text, formatted_prompt, attempt, ai_response,
                   builds, sent, failures, sleeps, normalized, parsed_response>>
    /\ UNCHANGED <<normalizerVars, concurrentVars, storeVars>>

\* extract_pdf_text and the check of its text
ExtractText ==
    /\ pc = "extract"
    /\ LET extracted == extract_pdf_text(pdf)
       IN  IF extracted.raised
           THEN Respond(InternalError(extracted.exc)) /\ UNCHANGED resume_text
           ELSE /\ resume_text' = extracted.ret
                /\ IF ~Truthy(Strip(extracted.ret))
                   THEN Respond(Response(400, ErrorBody(
                       <<"C","o","u","l","d"," ","n","o","t"," ","e","x","t","r","a","c","t"," ",
                         "t","e","x","t"," ","f","r","o","m"," ","P","D","F","."," ","P","l","e",
                         "a","s","e"," ","e","n","s","u","r","e"," ","t","h","e"," ","P","D","F",
                         " ","c","o","n","t","a","i","n","s"," ","r","e","a","d","a","b","l","e",
                         " ","t","e","x","t",".">>)))
                   ELSE pc' = "build" /\ UNCHANGED response
    /\ UNCHANGED <<expired, request, pdf, formatted_prompt, attempt, ai_response, builds, sent,
                   failures, sleeps, normalized, parsed_response>>
    /\ UNCHANGED <<normalizerVars, concurrentVars, storeVars>>

\* the prompt is formatted and the retry loop set up
BuildPrompt ==
    /\ pc = "build"
    /\ formatted_prompt' = FormatPrompt(resume_text, request.job_description)
    /\ builds' = builds + 1
    /\ ai_response' = PyNone
    /\ attempt' = 0
    /\ pc' = "invoke"
    /\ UNCHANGED <<expired, request, pdf, resume_text, sent, failures, sleeps, normalized,
                   parsed_response, response>>
    /\ UNCHANGED <<normalizerVars, concurrentVars, storeVars>>

\* one turn of the retry loop up to its break, return or sleep
InvokeModel ==
    /\ pc = "invoke"
    /\ \E outcome \in ProviderOutcomes :
        LET got == get_gemini_response(formatted_prompt, outcome)
        IN  /\ sent' = Append(sent, formatted_prompt)
            /\ IF ~got.raised
               THEN /\ ai_response' = PyStr(got.ret)
                    /\ pc' = "respond"
                    /\ UNCHANGED <<failures, response>>
               ELSE /\ failures' = Append(failures, got.exc)
                    /\ UNCHANGED ai_response
                    /\ IF LastAttempt(attempt)
                       THEN Respond(ExhaustedFallback(resume_text))
                       ELSE pc' = "sleep" /\ UNCHANGED response
    /\ UNCHANGED <<expired, request, pdf, resume_text, formatted_prompt, attempt, builds, sleeps,
                   normalized, parsed_response>>
    /\ UNCHANGED <<normalizerVars, concurrentVars, storeVars>>

\* Sleep with a delay counted twice
SleepDouble ==
    /\ pc = "sleep"
    /\ sleeps' = sleeps + 2
    /\ attempt' = attempt + 1
    /\ pc' = "invoke"
    /\ UNCHANGED <<expired, request, pdf, resume_text, formatted_prompt, ai_response, builds,
                   sent, failures, normalized, parsed_response, response>>
    /\ UNCHANGED <<normalizerVars, concurrentVars, storeVars>>

\* time.sleep(1), then the next turn of the loop, or its end when
\* range(max_retries + 1) is used up
Sleep ==
    /\ pc = "sleep"
    /\ sleeps' = sleeps + 1
    /\ IF attempt < max_retries
       THEN attempt' = attempt + 1 /\ pc' = "invoke"
       ELSE pc' = "respond" /\ UNCHANGED attempt
    /\ UNCHANGED <<expired, request, pdf, resume_text, formatted_prompt, ai_response, builds, sent,
                   failures, normalized, parsed_response, response>>
    /\ UNCHANGED <<normalizerVars, concurrentVars, storeVars>>

\* after the loop: the check of ai_response, parse_ai_response, the
\* validation of its result and the response
ParseAndRespond ==
    /\ pc = "respond"
    /\ IF Falsy(ai_response)
       THEN Respond(NoResponseFallback) /\ UNCHANGED <<normalized, parsed_response>>
       ELSE \E parsed \in {parse_ai_response(ai_response.v)} :
                /\ normalized' = Append(normalized, ai_response.v)
                /\ IF parsed.raised
                   THEN Respond(InternalError(parsed.exc)) /\ UNCHANGED parsed_response
                   ELSE /\ parsed_response' = parsed.ret
                        /\ Respond(Response(200, ValidateParsed(parsed.ret, resume_text)))
    /\ UNCHANGED <<expired, request, pdf, resume_text, formatted_prompt, attempt, ai_response,
                   builds, sent, failures, sleeps>>
    /\ UNCHANGED <<normalizerVars, concurrentVars, storeVars>>

\* the deadline of the caller elapses while the retry loop is running; no
\* statement of the handler reads it
DeadlineElapses ==
    /\ pc \in {"invoke", "sleep"}
    /\ ~expired
    /\ expired' = TRUE
    /\ UNCHANGED <<request, pdf, pc, resume_text, formatted_prompt, attempt, ai_response,
                   builds, sent, failures, sleeps, normalized, parsed_response, response>>
    /\ UNCHANGED <<normalizerVars, concurrentVars, storeVars>>

Next ==
    \/ DeadlineElapses
    \/ ValidateRequest
    \/ ExtractText
    \/ BuildPrompt
    \/ InvokeModel
    \/ Sleep
    \/ ParseAndRespond

Spec == Init /\ [][Next]_vars

----------------------------------------------------------------------------
(* The normalizer alone, applied to drawn model outputs *)

NormalizerInit ==
    /\ HandlerIdle
    /\ ConcurrentIdle
    /\ StoreIdle
    /\ \/ raw \in RawTexts /\ fields = Unset
       \/ fields \in FieldTriples /\ raw = PrimaryText(fields)
    /\ result = Unset
    /\ alt_result = Unset
    /\ loads = << >>
    /\ fenced = Unset
    /\ again = Unset
    /\ quoted = Unset

\* parse_ai_response applied to the raw text
Normalize ==
    /\ result = Unset
    /\ result' = parse_ai_response(raw)
    /\ loads' = LoadAttempts(raw)
    /\ UNCHANGED <<raw, fields, alt_result, fenced, again, quoted>>
    /\ UNCHANGED <<handlerVars, concurrentVars, storeVars>>

\* parse_ai_response applied to the same fields under the secondary keys
NormalizeSecondary ==
    /\ fields # Unset
    /\ alt_result = Unset
    /\ alt_result' = parse_ai_response(SecondaryText(fields))
    /\ UNCHANGED <<raw, fields, result, loads, fenced, again, quoted>>
    /\ UNCHANGED <<handlerVars, concurrentVars, storeVars>>

\* parse_ai_response applied to the raw text inside a fence with a tag
NormalizeFenced ==
    /\ again # Unset
    /\ fields # Unset => quoted # Unset
    /\ fenced = Unset
    /\ \E tag \in FenceTags :
        fenced' = [tag |-> tag, outcome |-> parse_ai_response(Fenced(tag, raw))]
    /\ UNCHANGED <<raw, fields, result, alt_result, loads, again, quoted>>
    /\ UNCHANGED <<handlerVars, concurrentVars, storeVars>>

\* parse_ai_response applied to its own result written as JSON
NormalizeAgain ==
    /\ result # Unset
    /\ ~result.raised
    /\ fields # Unset => alt_result # Unset
    /\ again = Unset
    /\ again' = parse_ai_response(JsonDumps(ResultDict(result.ret)))
    /\ UNCHANGED <<raw, fields, result, alt_result, loads, fenced, quoted>>
    /\ UNCHANGED <<handlerVars, concurrentVars, storeVars>>

\* parse_ai_response applied to the same object written with single quotes
NormalizeQuoted ==
    /\ fields # Unset
    /\ again # Unset
    /\ quoted = Unset
    /\ \E wrap \in BOOLEAN :
        quoted' = [wrap |-> wrap,
                   outcome |-> parse_ai_response(
                       IF wrap THEN Fenced(<<"j","s","o","n">>, SingleQuotedText(fields))
                       ELSE SingleQuotedText(fields))]
    /\ UNCHANGED <<raw, fields, result, alt_result, loads, fenced, again>>
    /\ UNCHANGED <<handlerVars, concurrentVars, storeVars>>

NormalizerNext ==
    \/ Normalize
    \/ NormalizeSecondary
    \/ NormalizeFenced
    \/ NormalizeAgain
    \/ NormalizeQuoted

SpecNormalizer == NormalizerInit /\ [][NormalizerNext]_vars

----------------------------------------------------------------------------
(* Concurrent requests: every call of analyze_resume runs in a thread of   *)
(* its own, on local variables of its own.  A call is the record of its    *)
(* local variables; its steps are those of the handler above.              *)

\* the requests served at the same time
CallIds == {1, 2}

ConcurrentRequests ==
    { [has_jd |-> TRUE, job_description |-> <<"N","e","e","d"," ","P","y","t","h","o","n"," ","d",
                                              "e","v","e","l","o","p","e","r"," ","w","i","t","h",
                                              " ","F","l","a","s","k",","," ","A","W","S",","," ",
                                              "K","u","b","e","r","n","e","t","e","s">>,
       has_file |-> TRUE, filename |-> <<"c","v",".","p","d","f">>],
      [has_jd |-> TRUE, job_description |-> <<"D","a","t","a"," ","a","n","a","l","y","s","t",",",
                                              " ","S","Q","L">>,
       has_file |-> TRUE, filename |-> <<"C","V",".","P","D","F">>],
      [has_jd |-> TRUE, job_description |-> <<"D","a","t","a"," ","a","n","a","l","y","s","t",",",
                                              " ","S","Q","L">>,
       has_file |-> FALSE, filename |-> << >>] }

ConcurrentPdfs ==
    { [raises |-> FALSE, text |-> <<"5"," ","y","e","a","r","s"," ","P","y","t","h","o","n",",",
                                    " ","F","l","a","s","k",","," ","D","o","c","k","e","r">>],
      [raises |-> FALSE, text |-> <<"P","y","t","h","o","n">>] }

ConcurrentOutcomes ==
    { ProviderError("transport", <<"5","0","3"," ","S","e","r","v","i","c","e"," ","U","n","a",
                                   "v","a","i","l","a","b","l","e">>),
      ProviderText(<<"{","\"","J","D"," ","M","a","t","c","h","\"",":","\"","6","0","%","\"",",",
                     "\"","M","i","s","s","i","n","g","K","e","y","w","o","r","d","s","\"",":",
                     "[","\"","A","W","S","\"",",","\"","K","u","b","e","r","n","e","t","e","s",
                     "\"","]",",","\"","P","r","o","f","i","l","e"," ","S","u","m","m","a","r",
                     "y","\"",":","\"","G","o","o","d"," ","b","a","c","k","e","n","d"," ","f",
                     "i","t","\"","}">>),
      ProviderText(<<"I"," ","c","a","n","n","o","t"," ","p","r","o","c","e","s","s"," ","t","h",
                     "i","s"," ","r","e","q","u","e","s","t",".">>) }

\* the local variables of a call at its start
NewCall(req, file) ==
    [request |-> req, pdf |-> file, pc |-> "validate", resume_text |-> << >>,
     formatted_prompt |-> << >>, attempt |-> 0, ai_response |-> PyNone,
     sent |-> << >>, failures |-> << >>, outcomes |-> << >>, sleeps |-> 0,
     response |-> NoResponse]

\* the call returns r
CallReturn(f, r) == [f EXCEPT !.response = r, !.pc = "done"]

\* the checks of the form and the file
CallValidate(f) ==
    IF ~f.request.has_jd
    THEN CallReturn(f, Response(400, ErrorBody(<<"J","o","b"," ","d","e","s","c","r","i","p","t",
                                                 "i","o","n"," ","i","s"," ","r","e","q","u","i",
                                                 "r","e","d">>)))
    ELSE IF ~f.request.has_file
    THEN CallReturn(f, Response(400, ErrorBody(<<"R","e","s","u","m","e"," ","f","i","l","e"," ",
                                                 "i","s"," ","r","e","q","u","i","r","e","d">>)))
    ELSE IF ~Truthy(Strip(f.request.job_description))
    THEN CallReturn(f, Response(400, ErrorBody(<<"J","o","b"," ","d","e","s","c","r","i","p","t",
                                                 "i","o","n"," ","c","a","n","n","o","t"," ","b",
                                                 "e"," ","e","m","p","t","y">>)))
    ELSE IF f.request.filename = << >>
    THEN CallReturn(f, Response(400, ErrorBody(<<"N","o"," ","r","e","s","u","m","e"," ","f","i",
                                                 "l","e"," ","s","e","l","e","c","t","e","d">>)))
    ELSE IF ~IsPdfName(f.request.filename)
    THEN CallReturn(f, Response(400, ErrorBody(<<"O","n","l","y"," ","P","D","F"," ","f","i","l",
                                                 "e","s"," ","a","r","e"," ","s","u","p","p","o",
                                                 "r","t","e","d">>)))
    ELSE [f EXCEPT !.pc = "extract"]

\* extract_pdf_text has given extracted; the check of its text
CallExtract(f, extracted) ==
    IF extracted.raised
    THEN CallReturn(f, InternalError(extracted.exc))
    ELSE IF ~Truthy(Strip(extracted.ret))
    THEN CallReturn([f EXCEPT !.resume_text = extracted.ret],
                    Response(400, ErrorBody(
                        <<"C","o","u","l","d"," ","n","o","t"," ","e","x","t","r","a","c","t"," ",
                          "t","e","x","t"," ","f","r","o","m"," ","P","D","F","."," ","P","l","e",
                          "a","s","e"," ","e","n","s","u","r","e"," ","t","h","e"," ","P","D","F",
                          " ","c","o","n","t","a","i","n","s"," ","r","e","a","d","a","b","l","e",
                          " ","t","e","x","t",".">>)))
    ELSE [f EXCEPT !.resume_text = extracted.ret, !.pc = "build"]

\* the prompt is formatted and the retry loop set up
CallBuild(f) ==
    [f EXCEPT !.formatted_prompt = FormatPrompt(f.resume_text, f.request.job_description),
              !.ai_response = PyNone,
              !.attempt = 0,
              !.pc = "invoke"]

\* the call with one more attempt on record
CallAttempted(f, outcome) ==
    [f EXCEPT !.sent = Append(@, f.formatted_prompt), !.outcomes = Append(@, outcome)]

\* one turn of the retry loop, get_gemini_response having given got
CallInvoke(f, outcome, got) ==
    IF ~got.raised
    THEN [CallAttempted(f, outcome) EXCEPT !.ai_response = PyStr(got.ret), !.pc = "respond"]
    ELSE IF LastAttempt(f.attempt)
    THEN CallReturn([CallAttempted(f, outcome) EXCEPT !.failures = Append(@, got.exc)],
                    ExhaustedFallback(f.resume_text))
    ELSE [CallAttempted(f, outcome) EXCEPT !.failures = Append(@, got.exc), !.pc = "sleep"]

\* time.sleep(1) and the next turn of the loop
CallSleep(f) ==
    [f EXCEPT !.sleeps = @ + 1,
              !.attempt = IF f.attempt < max_retries THEN @ + 1 ELSE @,
              !.pc = IF f.attempt < max_retries THEN "invoke" ELSE "respond"]

\* the response built from what parse_ai_response returned
CallParsed(f, parsed) ==
    IF parsed.raised
    THEN CallReturn(f, InternalError(parsed.exc))
    ELSE CallReturn(f, Response(200, ValidateParsed(parsed.ret, f.resume_text)))

\* after the loop: the check of ai_response, the parse and the response
CallRespond(f) ==
    IF Falsy(f.ai_response)
    THEN CallReturn(f, NoResponseFallback)
    ELSE CallParsed(f, parse_ai_response(f.ai_response.v))

\* the next step of a call; outcome is what the provider does if the step
\* is an invocation
CallStep(f, outcome) ==
    CASE f.pc = "validate" -> CallValidate(f)
      [] f.pc = "extract" -> CallExtract(f, extract_pdf_text(f.pdf))
      [] f.pc = "build" -> CallBuild(f)
      [] f.pc = "invoke" ->
             CallInvoke(f, outcome, get_gemini_response(f.formatted_prompt, outcome))
      [] f.pc = "sleep" -> CallSleep(f)
      [] f.pc = "respond" -> CallRespond(f)
      [] OTHER -> f

\* Locals that takes resume_text from the first call, as a module-level
\* variable written by it would be
LocalsSharedText(all, i) == [all[i] EXCEPT !.resume_text = all[1].resume_text]

\* the variables a call reads and writes: names assigned inside
\* analyze_resume are local to the call
Locals(all, i) == all[i]

ConcurrentInit ==
    /\ HandlerIdle
    /\ NormalizerIdle
    /\ StoreIdle
    /\ calls \in [CallIds -> {NewCall(r, p) : r \in ConcurrentRequests, p \in ConcurrentPdfs}]

\* the thread of call i takes its next step
Step(i) ==
    /\ calls[i].pc # "done"
    /\ \E outcome \in ConcurrentOutcomes :
        calls' = [calls EXCEPT ![i] = CallStep(Locals(calls, i), outcome)]
    /\ UNCHANGED <<handlerVars, normalizerVars, storeVars>>

ConcurrentNext == \E i \in CallIds : Step(i)

SpecConcurrent == ConcurrentInit /\ [][ConcurrentNext]_vars

----------------------------------------------------------------------------
(* The User and Review models over their MongoDB collections.  A document  *)
(* is a function from field names to values; a collection is the sequence  *)
(* of its documents in insertion order.  An ObjectId is the pair of the    *)
(* collection's tag and the rank of the insertion that made it.            *)

\* the outcome of a call: a returned value, or an exception of a type
StoreReturn(v) == [raised |-> FALSE, ret |-> v, type |-> "", exc |-> << >>]

StoreRaise(type, message) == [raised |-> TRUE, ret |-> PyNone, type |-> type, exc |-> message]

\* the ObjectId insert_one gives the n-th document of a collection
UserIdOf(n) == <<"u", n>>

ReviewIdOf(n) == <<"r", n>>

\* a string ObjectId() raises InvalidId for
NotAnId == <<"x", 0>>

\* ObjectId(s) does not raise
IsObjectId(s) == s[1] \in {"u", "r"}

\* d.get(k, default)
GetOr(d, k, default) == IF k \in DOMAIN d THEN d[k] ELSE default

\* {k: v for k, v in update_data.items() if k not in forbidden_fields}
WithoutFields(update_data, forbidden_fields) ==
    [k \in DOMAIN update_data \ forbidden_fields |-> update_data[k]]

\* the document after {"$set": update}
SetFields(doc, update) ==
    [k \in DOMAIN doc \cup DOMAIN update |->
        IF k \in DOMAIN update THEN update[k] ELSE doc[k]]

\* the document after {"$set": {"profile.<k>": v, ...}}
SetProfile(doc, update) ==
    SetFields(doc, [profile |-> SetFields(GetOr(doc, "profile", << >>), update)])

\* the rank of the first document the filter of find_one, update_one or
\* delete_one matches; 0 when there is none
FirstMatch(coll, Matches(_)) ==
    IF \E i \in 1..Len(coll) : Matches(coll[i])
    THEN MinOf({i \in 1..Len(coll) : Matches(coll[i])})
    ELSE 0

\* the collection without its i-th document
RemoveAt(coll, i) == [j \in 1..(Len(coll) - 1) |-> IF j < i THEN coll[j] ELSE coll[j + 1]]

----------------------------------------------------------------------------
(* models/user.py *)

\* bcrypt.hashpw(password, salt): a value only checkpw relates to the password
hash_password(password) == [bcrypt |-> password]

\* bcrypt.checkpw(password, hashed)
verify_password(password, hashed) == hashed = hash_password(password)

\* the character between the local part and the domain of an email
AtSign == "@"

\* validate_email(email) does not raise: one at-sign after a local part, and
\* a domain with a dot inside it
validate_email_format(email) ==
    /\ \A i, j \in 1..Len(email) : (email[i] = AtSign /\ email[j] = AtSign) => i = j
    /\ \E i \in 2..Len(email) :
        /\ email[i] = AtSign
        /\ \E j \in (i + 2)..(Len(email) - 1) : email[j] = "."

\* the required fields of create_user, in the order they are checked
RequiredUserFields == <<"email", "password", "firstName", "lastName">>

\* "if len(user_data['password']) < 8"
MinPasswordLen == 8

\* _format_user_response(user)
FormatUser(user) ==
    [id |-> user._id, email |-> user.email, firstName |-> user.firstName,
     lastName |-> user.lastName, createdAt |-> user.createdAt,
     profile |-> GetOr(user, "profile", << >>)]

\* the checks of create_user before the document is built: the exception
\* raised, or nothing
CheckUserData(collection, user_data) ==
    IF \E n \in 1..Len(RequiredUserFields) :
           GetOr(user_data, RequiredUserFields[n], << >>) = << >>
    THEN StoreRaise("ValueError", <<"M","i","s","s","i","n","g"," ","r","e","q","u","i","r","e",
                                    "d"," ","f","i","e","l","d",":"," ">> \o
             <<RequiredUserFields[MinOf({n \in 1..Len(RequiredUserFields) :
                   GetOr(user_data, RequiredUserFields[n], << >>) = << >>})]>>)
    ELSE IF ~validate_email_format(user_data.email)
    THEN StoreRaise("ValueError", <<"I","n","v","a","l","i","d"," ","e","m","a","i","l"," ","f",
                                    "o","r","m","a","t">>)
    ELSE IF FirstMatch(collection, LAMBDA u : u.email = Lower(user_data.email)) # 0
    THEN StoreRaise("ValueError", <<"U","s","e","r"," ","w","i","t","h"," ","t","h","i","s"," ",
                                    "e","m","a","i","l"," ","a","l","r","e","a","d","y"," ","e",
                                    "x","i","s","t","s">>)
    ELSE IF Len(user_data.password) < MinPasswordLen
    THEN StoreRaise("ValueError", <<"P","a","s","s","w","o","r","d"," ","m","u","s","t"," ","b",
                                    "e"," ","a","t"," ","l","e","a","s","t"," ","8"," ","c","h",
                                    "a","r","a","c","t","e","r","s"," ","l","o","n","g">>)
    ELSE StoreReturn(PyNone)

\* the user document create_user builds
UserDoc(user_data, utcnow) ==
    [email |-> Lower(user_data.email),
     password |-> hash_password(user_data.password),
     firstName |-> Strip(user_data.firstName),
     lastName |-> Strip(user_data.lastName),
     createdAt |-> utcnow,
     updatedAt |-> utcnow,
     isActive |-> TRUE,
     profile |-> [totalReviews |-> 0, averageScore |-> 0, lastLoginAt |-> -1]]

\* InsertUser on a collection without the unique index on email
InsertUserNoIndex(collection, doc) ==
    [users |-> Append(collection, SetFields(doc, [_id |-> UserIdOf(Len(collection) + 1)])),
     out |-> StoreReturn(FormatUser(SetFields(doc, [_id |-> UserIdOf(Len(collection) + 1)])))]

\* collection.insert_one(user_doc) under the unique index on email, and the
\* return of create_user
InsertUser(collection, doc) ==
    IF FirstMatch(collection, LAMBDA u : u.email = doc.email) # 0
    THEN [users |-> collection,
          out |-> StoreRaise("DuplicateKeyError", <<"E","1","1","0","0","0"," ","d","u","p","l",
                                                    "i","c","a","t","e"," ","k","e","y"," ","e",
                                                    "r","r","o","r">>)]
    ELSE [users |-> Append(collection, SetFields(doc, [_id |-> UserIdOf(Len(collection) + 1)])),
          out |-> StoreReturn(FormatUser(SetFields(doc, [_id |-> UserIdOf(Len(collection) + 1)])))]

\* create_user(user_data) at the time now
create_user(collection, utcnow, user_data) ==
    IF CheckUserData(collection, user_data).raised
    THEN [users |-> collection, out |-> CheckUserData(collection, user_data)]
    ELSE InsertUser(collection, UserDoc(user_data, utcnow))

\* the user authenticate_user finds, verified; 0 when it returns None
AuthenticatedUser(collection, email, password) ==
    IF FirstMatch(collection, LAMBDA u : u.email = Lower(email) /\ u.isActive = TRUE) = 0
    THEN 0
    ELSE IF ~verify_password(password,
                collection[FirstMatch(collection, LAMBDA u : u.email = Lower(email)
                                                     /\ u.isActive = TRUE)].password)
    THEN 0
    ELSE FirstMatch(collection, LAMBDA u : u.email = Lower(email) /\ u.isActive = TRUE)

\* authenticate_user(email, password) at the time now
authenticate_user(collection, utcnow, email, password) ==
    IF AuthenticatedUser(collection, email, password) = 0
    THEN [users |-> collection, out |-> StoreReturn(PyNone)]
    ELSE [users |-> [collection EXCEPT ![AuthenticatedUser(collection, email, password)] =
                         SetProfile(@, [lastLoginAt |-> utcnow])],
          out |-> StoreReturn(FormatUser(collection[AuthenticatedUser(collection, email, password)]))]

\* get_user_by_id(user_id)
get_user_by_id(collection, user_id) ==
    IF ~IsObjectId(user_id)
    THEN PyNone
    ELSE IF FirstMatch(collection, LAMBDA u : u._id = user_id /\ u.isActive = TRUE) = 0
    THEN PyNone
    ELSE FormatUser(collection[FirstMatch(collection, LAMBDA u : u._id = user_id /\ u.isActive = TRUE)])

\* the fields update_user removes from update_data
ForbiddenUserFields == {"_id", "password", "createdAt", "email"}

\* the users collection after update_one({"_id": ...}, {"$set": update})
UpdateUserDoc(collection, user_id, update) ==
    IF FirstMatch(collection, LAMBDA u : u._id = user_id) = 0
    THEN collection
    ELSE [collection EXCEPT ![FirstMatch(collection, LAMBDA u : u._id = user_id)] =
              SetFields(@, update)]

\* update_user(user_id, update_data) at the time now
update_user(collection, utcnow, user_id, update_data) ==
    IF DOMAIN WithoutFields(update_data, ForbiddenUserFields) = {} \/ ~IsObjectId(user_id)
    THEN [users |-> collection, out |-> StoreReturn(PyNone)]
    ELSE \* modified_count > 0: a document matched and the $set changed it
         IF UpdateUserDoc(collection, user_id,
                SetFields(WithoutFields(update_data, ForbiddenUserFields),
                          [updatedAt |-> utcnow])) # collection
         THEN [users |-> UpdateUserDoc(collection, user_id,
                             SetFields(WithoutFields(update_data, ForbiddenUserFields),
                                       [updatedAt |-> utcnow])),
               out |-> StoreReturn(get_user_by_id(
                           UpdateUserDoc(collection, user_id,
                               SetFields(WithoutFields(update_data, ForbiddenUserFields),
                                         [updatedAt |-> utcnow])), user_id))]
         ELSE [users |-> collection, out |-> StoreReturn(PyNone)]

\* round(x, 2) of the quotient num / den of hundredths, to the nearest
\* hundredth, a tie to the even one
RoundDiv(num, den) ==
    IF 2 * (num % den) > den \/ (2 * (num % den) = den /\ (num \div den) % 2 = 1)
    THEN (num \div den) + 1
    ELSE num \div den

\* the user update_user_stats reads: find_one({"_id": ObjectId(user_id)});
\* None when there is none or the id is no ObjectId
ReadUserForStats(collection, user_id) ==
    IF ~IsObjectId(user_id) \/ FirstMatch(collection, LAMBDA u : u._id = user_id) = 0
    THEN PyNone
    ELSE collection[FirstMatch(collection, LAMBDA u : u._id = user_id)]

\* the "$set" update_user_stats computes from the user it has read
\* (averageScore is kept in hundredths)
StatsUpdate(user, review_score, utcnow) ==
    [totalReviews |-> GetOr(GetOr(user, "profile", << >>), "totalReviews", 0) + 1,
     averageScore |->
         RoundDiv(GetOr(GetOr(user, "profile", << >>), "averageScore", 0)
                      * GetOr(GetOr(user, "profile", << >>), "totalReviews", 0)
                  + 100 * review_score.v,
                  GetOr(GetOr(user, "profile", << >>), "totalReviews", 0) + 1)]

\* the second store operation of update_user_stats: update_one with the
\* values computed from the user read before
WriteUserStats(collection, utcnow, user_id, user, review_score) ==
    IF review_score.t # "int"
    THEN \* int + str raises TypeError inside the try block
         [users |-> collection, out |-> StoreReturn(PyBool(FALSE))]
    ELSE [users |->
              IF FirstMatch(collection, LAMBDA u : u._id = user_id) = 0
              THEN collection
              ELSE [collection EXCEPT ![FirstMatch(collection, LAMBDA u : u._id = user_id)] =
                        SetFields(SetProfile(@, StatsUpdate(user, review_score, utcnow)),
                                  [updatedAt |-> utcnow])],
          out |-> StoreReturn(PyBool(TRUE))]

\* update_user_stats(user_id, review_score) at the time now, on its own
update_user_stats(collection, utcnow, user_id, review_score) ==
    IF ReadUserForStats(collection, user_id) = PyNone
    THEN [users |-> collection, out |-> StoreReturn(PyBool(FALSE))]
    ELSE WriteUserStats(collection, utcnow, user_id, ReadUserForStats(collection, user_id),
                        review_score)

\* delete_user(user_id) at the time now
delete_user(collection, utcnow, user_id) ==
    IF ~IsObjectId(user_id)
    THEN [users |-> collection, out |-> StoreReturn(PyBool(FALSE))]
    ELSE [users |-> UpdateUserDoc(collection, user_id,
                        [isActive |-> FALSE, updatedAt |-> utcnow]),
          out |-> StoreReturn(PyBool(
                      UpdateUserDoc(collection, user_id,
                          [isActive |-> FALSE, updatedAt |-> utcnow]) # collection))]

----------------------------------------------------------------------------
(* models/review.py *)

\* the required fields of create_review, in the order they are checked
RequiredReviewFields ==
    <<"userId", "jobTitle", "jobDescription", "resumeFileName", "matchScore">>

\* _format_review_response(review)
FormatReview(review) ==
    [id |-> review._id, userId |-> review.userId, jobTitle |-> review.jobTitle,
     jobDescription |-> review.jobDescription,
     resumeFileName |-> review.resumeFileName, matchScore |-> review.matchScore,
     missingKeywords |-> review.missingKeywords,
     profileSummary |-> review.profileSummary,
     recommendations |-> GetOr(review, "recommendations", << >>),
     createdAt |-> review.createdAt, updatedAt |-> review.updatedAt]

\* int(x) raises: ValueError for a str that is no number, TypeError for None
IntRaises(x) ==
    CASE x.t = "int" -> ""
      [] x.t = "str" ->
            IF x.v # << >> /\ \A i \in 1..Len(x.v) : IsDigit(x.v[i])
            THEN "" ELSE "ValueError"
      [] OTHER -> "TypeError"

\* int(x) when it does not raise
IntOf(x) == IF x.t = "str" THEN StrToInt(x.v) ELSE x.v

\* the exception create_review raises before it inserts, or nothing
CheckReviewData(review_data) ==
    IF \E n \in 1..Len(RequiredReviewFields) :
           RequiredReviewFields[n] \notin DOMAIN review_data
    THEN StoreRaise("ValueError", <<"M","i","s","s","i","n","g"," ","r","e","q","u","i","r","e",
                                    "d"," ","f","i","e","l","d",":"," ">> \o
             <<RequiredReviewFields[MinOf({n \in 1..Len(RequiredReviewFields) :
                   RequiredReviewFields[n] \notin DOMAIN review_data})]>>)
    ELSE IF ~IsObjectId(review_data.userId)
    THEN StoreRaise("InvalidId", <<"i","s"," ","n","o","t"," ","a"," ","v","a","l","i","d"," ",
                                   "O","b","j","e","c","t","I","d">>)
    ELSE IF IntRaises(review_data.matchScore) # ""
    THEN StoreRaise(IntRaises(review_data.matchScore), <<"i","n","t","(",")"," ","a","r","g","u",
                                                         "m","e","n","t">>)
    ELSE StoreReturn(PyNone)

\* the review document create_review builds, with the _id insert_one gives
ReviewDoc(review_data, utcnow, id) ==
    [_id |-> id,
     userId |-> review_data.userId,
     jobTitle |-> review_data.jobTitle,
     jobDescription |-> review_data.jobDescription,
     resumeFileName |-> review_data.resumeFileName,
     matchScore |-> IntOf(review_data.matchScore),
     missingKeywords |-> GetOr(review_data, "missingKeywords", << >>),
     profileSummary |-> GetOr(review_data, "profileSummary", << >>),
     recommendations |-> GetOr(review_data, "recommendations", << >>),
     createdAt |-> utcnow,
     updatedAt |-> utcnow]

\* create_review(review_data) at the time now, when id is the next ObjectId
create_review(collection, utcnow, id, review_data) ==
    IF CheckReviewData(review_data).raised
    THEN [reviews |-> collection, out |-> CheckReviewData(review_data)]
    ELSE [reviews |-> Append(collection, ReviewDoc(review_data, utcnow, id)),
          out |-> StoreReturn(FormatReview(ReviewDoc(review_data, utcnow, id)))]

\* OwnedReview that looks at the _id alone
OwnedReviewAnyOwner(collection, review_id, user_id) ==
    FirstMatch(collection, LAMBDA r : r._id = review_id)

\* the rank of the review the filter {"_id": ..., "userId": ...} matches
OwnedReview(collection, review_id, user_id) ==
    FirstMatch(collection, LAMBDA r : r._id = review_id /\ r.userId = user_id)

\* get_review_by_id(review_id, user_id)
get_review_by_id(collection, review_id, user_id) ==
    IF ~IsObjectId(review_id) \/ ~IsObjectId(user_id)
    THEN PyNone
    ELSE IF OwnedReview(collection, review_id, user_id) = 0
    THEN PyNone
    ELSE FormatReview(collection[OwnedReview(collection, review_id, user_id)])

\* ForbiddenReviewFields without userId
ForbiddenReviewFieldsNoOwner == {"_id", "createdAt"}

\* the fields update_review removes from update_data
ForbiddenReviewFields == {"_id", "userId", "createdAt"}

\* the reviews collection after update_one of the owned review
UpdateReviewDoc(collection, review_id, user_id, update) ==
    IF OwnedReview(collection, review_id, user_id) = 0
    THEN collection
    ELSE [collection EXCEPT ![OwnedReview(collection, review_id, user_id)] =
              SetFields(@, update)]

\* update_review(review_id, user_id, update_data) at the time now
update_review(collection, utcnow, review_id, user_id, update_data) ==
    IF \/ DOMAIN WithoutFields(update_data, ForbiddenReviewFields) = {}
       \/ ~IsObjectId(review_id)
       \/ ~IsObjectId(user_id)
    THEN [reviews |-> collection, out |-> StoreReturn(PyNone)]
    ELSE \* modified_count > 0: a document matched and the $set changed it
         IF UpdateReviewDoc(collection, review_id, user_id,
                SetFields(WithoutFields(update_data, ForbiddenReviewFields),
                          [updatedAt |-> utcnow])) # collection
         THEN [reviews |-> UpdateReviewDoc(collection, review_id, user_id,
                               SetFields(WithoutFields(update_data, ForbiddenReviewFields),
                                         [updatedAt |-> utcnow])),
               out |-> StoreReturn(get_review_by_id(
                           UpdateReviewDoc(collection, review_id, user_id,
                               SetFields(WithoutFields(update_data, ForbiddenReviewFields),
                                         [updatedAt |-> utcnow])),
                           review_id, user_id))]
         ELSE [reviews |-> collection, out |-> StoreReturn(PyNone)]

\* delete_review(review_id, user_id)
delete_review(collection, review_id, user_id) ==
    IF ~IsObjectId(review_id) \/ ~IsObjectId(user_id)
    THEN [reviews |-> collection, out |-> StoreReturn(PyBool(FALSE))]
    ELSE IF OwnedReview(collection, review_id, user_id) = 0
    THEN [reviews |-> collection, out |-> StoreReturn(PyBool(FALSE))]
    ELSE [reviews |-> RemoveAt(collection, OwnedReview(collection, review_id, user_id)),
          out |-> StoreReturn(PyBool(TRUE))]

----------------------------------------------------------------------------
(* routes/reviews.py: POST /reviews *)

\* the response of create_review of the route for the outcome of the model's
\* create_review
ReviewResponse(out) ==
    IF ~out.raised
    THEN Response(201, [message |-> <<"R","e","v","i","e","w"," ","c","r","e","a","t","e","d"," ",
                                      "s","u","c","c","e","s","s","f","u","l","l","y">>, review |-> out.ret])
    ELSE IF out.type = "ValueError"
    THEN Response(400, [error |-> out.exc])
    ELSE Response(500, [error |-> <<"I","n","t","e","r","n","a","l"," ","s","e","r","v","e","r",
                                    " ","e","r","r","o","r">>])

----------------------------------------------------------------------------
(* Calls of the models, one at a time *)

\* the most users and reviews ever inserted, and the last time of the clock
MaxUsers == 2

MaxReviews == 2

MaxClock == 1

\* the form data of the calls of create_user
UserData ==
    { [email |-> <<"a","@","x",".","i","o">>, password |-> <<"s","e","c","r","e","t","1","2","3">>,
       firstName |-> <<" ","A","d","a"," ">>, lastName |-> <<"N","g">>],
      [email |-> <<"A","@","X",".","i","o">>, password |-> <<"s","e","c","r","e","t","1","2","3">>,
       firstName |-> <<"A","d","a">>, lastName |-> <<"N","g">>],
      [email |-> <<"b","@","x",".","i","o">>, password |-> <<"s","e","c","r","e","t","1","2","3">>,
       firstName |-> <<"B","o">>, lastName |-> <<"L","i">>],
      [email |-> <<"a","x",".","i","o">>, password |-> <<"s","e","c","r","e","t","1","2","3">>,
       firstName |-> <<"A","d","a">>, lastName |-> <<"N","g">>],
      [email |-> <<"b","@","x",".","i","o">>, password |-> <<"s","h","o","r","t">>,
       firstName |-> <<"B","o">>, lastName |-> <<"L","i">>],
      [email |-> <<"b","@","x",".","i","o">>, password |-> <<"s","e","c","r","e","t","1","2","3">>, firstName |-> <<"B",
                                                                                                                    "o">>] }

\* the emails and passwords given to authenticate_user
LoginEmails == { <<"A","@","X",".","i","o">>, <<"b","@","x",".","i","o">> }

LoginPasswords == { <<"s","e","c","r","e","t","1","2","3">>, <<"g","u","e","s","s">> }

\* the ids given to the calls: those of the users there may be, and a
\* string that is no ObjectId
UserIds == {UserIdOf(n) : n \in 1..MaxUsers} \cup {NotAnId}

ReviewIds == {ReviewIdOf(n) : n \in 1..MaxReviews} \cup {NotAnId}

\* the users calling the Review model with the identity of their token
Callers == {UserIdOf(n) : n \in 1..MaxUsers}

\* the update_data of the calls of update_user
UserUpdates ==
    { << >>,
      [email |-> <<"b","@","x",".","i","o">>, firstName |-> <<"Z","e","d">>],
      [isActive |-> TRUE],
      [_id |-> UserIdOf(2), password |-> hash_password(<<"g","u","e","s","s">>),
       createdAt |-> MaxClock, email |-> <<"b","@","x",".","i","o">>] }

\* the JSON bodies of POST /reviews
ReviewBodies ==
    { [jobTitle |-> <<"S","R","E">>, jobDescription |-> <<"K","u","b","e","r","n","e","t","e",
                                                          "s">>,
       resumeFileName |-> <<"c","v",".","p","d","f">>, matchScore |-> score] :
          score \in {PyInt(60), PyInt(85), PyStr(<<"8","5">>), PyStr(<<"h","i","g","h">>), PyNone} }
    \cup { [jobDescription |-> <<"K","u","b","e","r","n","e","t","e","s">>, resumeFileName |-> <<"c",
                                                                                                 "v",
                                                                                                 ".",
                                                                                                 "p",
                                                                                                 "d",
                                                                                                 "f">>,
            matchScore |-> PyInt(60)],
           << >> }

\* the update_data of the calls of update_review
ReviewUpdates ==
    { << >>,
      [userId |-> UserIdOf(2)],
      [_id |-> ReviewIdOf(2), userId |-> UserIdOf(1), createdAt |-> MaxClock],
      [jobTitle |-> <<"D","a","t","a"," ","e","n","g","i","n","e","e","r">>],
      [jobTitle |-> <<"D","a","t","a"," ","e","n","g","i","n","e","e","r">>, userId |-> UserIdOf(2), _id |-> ReviewIdOf(2)] }

\* the record of a call that has returned
Called(op, user_id, review_id, data, out) ==
    [op |-> op, user_id |-> user_id, review_id |-> review_id, data |-> data, out |-> out]

StoreInit ==
    /\ HandlerIdle
    /\ NormalizerIdle
    /\ ConcurrentIdle
    /\ StoreIdle

\* datetime.utcnow() moves on
Tick ==
    /\ now < MaxClock
    /\ now' = now + 1
    /\ UNCHANGED <<users, reviews, born, deleted, last, inflight>>
    /\ UNCHANGED <<handlerVars, normalizerVars, concurrentVars>>

CreateUser ==
    /\ Len(users) < MaxUsers
    /\ \E user_data \in UserData :
        \E done \in {create_user(users, now, user_data)} :
            /\ users' = done.users
            /\ last' = Called("create_user", << >>, << >>, user_data, done.out)
    /\ UNCHANGED <<reviews, born, deleted, now, inflight>>
    /\ UNCHANGED <<handlerVars, normalizerVars, concurrentVars>>

AuthenticateUser ==
    /\ \E email \in LoginEmails, password \in LoginPasswords :
        \E done \in {authenticate_user(users, now, email, password)} :
            /\ users' = done.users
            /\ last' = Called("authenticate_user", << >>, << >>,
                              [email |-> email, password |-> password], done.out)
    /\ UNCHANGED <<reviews, born, deleted, now, inflight>>
    /\ UNCHANGED <<handlerVars, normalizerVars, concurrentVars>>

GetUserById ==
    /\ \E user_id \in UserIds :
        last' = Called("get_user_by_id", user_id, << >>, << >>,
                       StoreReturn(get_user_by_id(users, user_id)))
    /\ UNCHANGED <<users, reviews, born, deleted, now, inflight>>
    /\ UNCHANGED <<handlerVars, normalizerVars, concurrentVars>>

UpdateUser ==
    /\ \E user_id \in UserIds, update_data \in UserUpdates :
        \E done \in {update_user(users, now, user_id, update_data)} :
            /\ users' = done.users
            /\ last' = Called("update_user", user_id, << >>, update_data, done.out)
    /\ UNCHANGED <<reviews, born, deleted, now, inflight>>
    /\ UNCHANGED <<handlerVars, normalizerVars, concurrentVars>>

DeleteUser ==
    /\ \E user_id \in UserIds :
        \E done \in {delete_user(users, now, user_id)} :
            /\ users' = done.users
            /\ deleted' = IF done.out.ret = PyBool(TRUE)
                          THEN deleted \cup {user_id} ELSE deleted
            /\ last' = Called("delete_user", user_id, << >>, << >>, done.out)
    /\ UNCHANGED <<reviews, born, now, inflight>>
    /\ UNCHANGED <<handlerVars, normalizerVars, concurrentVars>>

\* POST /reviews served from its first statement to its last: the identity
\* of the token is that of a stored user
CreateReviewRequest ==
    /\ Len(born) < MaxReviews
    /\ \E n \in 1..Len(users), body \in ReviewBodies :
        IF body = << >>
        THEN /\ last' = Called("POST /reviews", users[n]._id, << >>, body,
                               Response(400, [error |-> <<"N","o"," ","d","a","t","a"," ","p","r",
                                                          "o","v","i","d","e","d">>]))
             /\ UNCHANGED <<users, reviews, born>>
        ELSE \E made \in {create_review(reviews, now, ReviewIdOf(Len(born) + 1),
                              SetFields(body, [userId |-> users[n]._id]))} :
                /\ reviews' = made.reviews
                /\ last' = Called("POST /reviews", users[n]._id, << >>, body,
                                  ReviewResponse(made.out))
                /\ IF made.out.raised
                   THEN UNCHANGED <<users, born>>
                   ELSE /\ born' = Append(born, reviews'[Len(reviews')])
                        /\ users' = update_user_stats(users, now, users[n]._id,
                                                      body.matchScore).users
    /\ UNCHANGED <<deleted, now, inflight>>
    /\ UNCHANGED <<handlerVars, normalizerVars, concurrentVars>>

\* the review_data of the calls of create_review
ReviewData ==
    { [userId |-> user_id, jobTitle |-> <<"S","R","E">>, jobDescription |-> <<"K","u","b","e","r",
                                                                              "n","e","t","e",
                                                                              "s">>,
       resumeFileName |-> <<"c","v",".","p","d","f">>, matchScore |-> PyInt(60)] : user_id \in UserIds }
    \cup { [userId |-> UserIdOf(1), jobTitle |-> <<"S","R","E">>, jobDescription |-> <<"K","u",
                                                                                       "b","e",
                                                                                       "r","n",
                                                                                       "e","t",
                                                                                       "e","s">>,
            resumeFileName |-> <<"c","v",".","p","d","f">>, matchScore |-> PyStr(<<"h","i","g",
                                                                                   "h">>)],
           [userId |-> UserIdOf(1), jobTitle |-> <<"S","R","E">>, jobDescription |-> <<"K","u",
                                                                                       "b","e",
                                                                                       "r","n",
                                                                                       "e","t",
                                                                                       "e","s">>,
            resumeFileName |-> <<"c","v",".","p","d","f">>] }

CreateReview ==
    /\ Len(born) < MaxReviews
    /\ \E review_data \in ReviewData :
        \E made \in {create_review(reviews, now, ReviewIdOf(Len(born) + 1), review_data)} :
            /\ reviews' = made.reviews
            /\ born' = IF made.out.raised THEN born
                       ELSE Append(born, made.reviews[Len(made.reviews)])
            /\ last' = Called("create_review", review_data.userId, << >>, review_data,
                              made.out)
    /\ UNCHANGED <<users, deleted, now, inflight>>
    /\ UNCHANGED <<handlerVars, normalizerVars, concurrentVars>>

GetReviewById ==
    /\ \E review_id \in ReviewIds, user_id \in Callers :
        last' = Called("get_review_by_id", user_id, review_id, << >>,
                       StoreReturn(get_review_by_id(reviews, review_id, user_id)))
    /\ UNCHANGED <<users, reviews, born, deleted, now, inflight>>
    /\ UNCHANGED <<handlerVars, normalizerVars, concurrentVars>>

UpdateReview ==
    /\ \E review_id \in ReviewIds, user_id \in Callers, update_data \in ReviewUpdates :
        \E done \in {update_review(reviews, now, review_id, user_id, update_data)} :
            /\ reviews' = done.reviews
            /\ last' = Called("update_review", user_id, review_id, update_data, done.out)
    /\ UNCHANGED <<users, born, deleted, now, inflight>>
    /\ UNCHANGED <<handlerVars, normalizerVars, concurrentVars>>

DeleteReview ==
    /\ \E review_id \in ReviewIds, user_id \in Callers :
        \E done \in {delete_review(reviews, review_id, user_id)} :
            /\ reviews' = done.reviews
            /\ last' = Called("delete_review", user_id, review_id, << >>, done.out)
    /\ UNCHANGED <<users, born, deleted, now, inflight>>
    /\ UNCHANGED <<handlerVars, normalizerVars, concurrentVars>>

\* the calls of the Review model
ReviewsNext ==
    \/ Tick
    \/ CreateReview
    \/ GetReviewById
    \/ UpdateReview
    \/ DeleteReview

SpecReviews == StoreInit /\ [][ReviewsNext]_vars

\* the calls of the User model
UsersNext ==
    \/ Tick
    \/ CreateUser
    \/ AuthenticateUser
    \/ GetUserById
    \/ UpdateUser
    \/ DeleteUser

SpecUsers == StoreInit /\ [][UsersNext]_vars

\* POST /reviews, one request at a time, for the users create_user has made
ReviewRequestsNext ==
    \/ Tick
    \/ CreateUser
    \/ CreateReviewRequest

SpecReviewRequests == StoreInit /\ [][ReviewRequestsNext]_vars

----------------------------------------------------------------------------
(* Requests served at the same time: every request runs in a thread of its *)
(* own, and each call of a collection method is one step of it.            *)

\* the threads serving requests
RequestIds == {1, 2}

\* a thread that serves no request
Idle ==
    [op |-> "", pc |-> "idle", user_id |-> << >>, data |-> << >>, user |-> PyNone,
     out |-> << >>]

\* the form data of the concurrent calls of create_user
ConcurrentUserData ==
    { [email |-> <<"a","@","x",".","i","o">>, password |-> <<"s","e","c","r","e","t","1","2","3">>,
       firstName |-> <<" ","A","d","a"," ">>, lastName |-> <<"N","g">>],
      [email |-> <<"A","@","X",".","i","o">>, password |-> <<"s","e","c","r","e","t","1","2","3">>,
       firstName |-> <<"A","d","a">>, lastName |-> <<"N","g">>],
      [email |-> <<"b","@","x",".","i","o">>, password |-> <<"s","e","c","r","e","t","1","2","3">>,
       firstName |-> <<"B","o">>, lastName |-> <<"L","i">>] }

\* the JSON bodies of the concurrent POST /reviews
ConcurrentReviewBodies ==
    { [jobTitle |-> <<"S","R","E">>, jobDescription |-> <<"K","u","b","e","r","n","e","t","e",
                                                          "s">>,
       resumeFileName |-> <<"c","v",".","p","d","f">>, matchScore |-> score] :
          score \in {PyInt(60), PyInt(85)} }

\* the requests of the given kind that have not yet inserted their document
Pending(op, pcs) == {p \in RequestIds : inflight[p].op = op /\ inflight[p].pc \in pcs}

ConcurrentStoreInit ==
    /\ HandlerIdle
    /\ NormalizerIdle
    /\ ConcurrentIdle
    /\ users = << >>
    /\ reviews = << >>
    /\ born = << >>
    /\ deleted = {}
    /\ now = 0
    /\ last = NoCall
    /\ inflight = [p \in RequestIds |-> Idle]

\* a call of create_user starts
BeginCreateUser(p) ==
    /\ inflight[p].pc = "idle"
    /\ Len(users) + Cardinality(Pending("create_user", {"check", "insert"})) < MaxUsers
    /\ \E user_data \in ConcurrentUserData :
        inflight' = [inflight EXCEPT ![p] =
                        [Idle EXCEPT !.op = "create_user", !.pc = "check",
                                     !.data = user_data]]
    /\ UNCHANGED <<users, reviews, born, deleted, now, last>>
    /\ UNCHANGED <<handlerVars, normalizerVars, concurrentVars>>

\* create_user up to and including find_one: the checks of the form data
\* and of the email
CreateUserCheck(p) ==
    /\ inflight[p].op = "create_user"
    /\ inflight[p].pc = "check"
    /\ inflight' = [inflight EXCEPT ![p] =
          IF CheckUserData(users, inflight[p].data).raised
          THEN [@ EXCEPT !.pc = "done", !.out = CheckUserData(users, inflight[p].data)]
          ELSE [@ EXCEPT !.pc = "insert", !.user = UserDoc(inflight[p].data, now)]]
    /\ UNCHANGED <<users, reviews, born, deleted, now, last>>
    /\ UNCHANGED <<handlerVars, normalizerVars, concurrentVars>>

\* create_user from insert_one on
CreateUserInsert(p) ==
    /\ inflight[p].op = "create_user"
    /\ inflight[p].pc = "insert"
    /\ \E done \in {InsertUser(users, inflight[p].user)} :
        /\ users' = done.users
        /\ inflight' = [inflight EXCEPT ![p] = [@ EXCEPT !.pc = "done", !.out = done.out]]
    /\ UNCHANGED <<reviews, born, deleted, now, last>>
    /\ UNCHANGED <<handlerVars, normalizerVars, concurrentVars>>

\* POST /reviews starts, with the token of a stored user
BeginCreateReview(p) ==
    /\ inflight[p].pc = "idle"
    /\ Len(born) + Cardinality(Pending("POST /reviews", {"insert"})) < MaxReviews
    /\ \E n \in 1..Len(users), body \in ConcurrentReviewBodies :
        inflight' = [inflight EXCEPT ![p] =
                        [Idle EXCEPT !.op = "POST /reviews", !.pc = "insert",
                                     !.user_id = users[n]._id, !.data = body]]
    /\ UNCHANGED <<users, reviews, born, deleted, now, last>>
    /\ UNCHANGED <<handlerVars, normalizerVars, concurrentVars>>

\* POST /reviews up to and including create_review of the model
ReviewInsert(p) ==
    /\ inflight[p].op = "POST /reviews"
    /\ inflight[p].pc = "insert"
    /\ \E made \in {create_review(reviews, now, ReviewIdOf(Len(born) + 1),
                        SetFields(inflight[p].data, [userId |-> inflight[p].user_id]))} :
        /\ reviews' = made.reviews
        /\ born' = IF made.out.raised THEN born
                   ELSE Append(born, made.reviews[Len(made.reviews)])
        /\ inflight' = [inflight EXCEPT ![p] =
              IF made.out.raised
              THEN [@ EXCEPT !.pc = "done", !.out = ReviewResponse(made.out)]
              ELSE [@ EXCEPT !.pc = "read", !.out = ReviewResponse(made.out)]]
    /\ UNCHANGED <<users, deleted, now, last>>
    /\ UNCHANGED <<handlerVars, normalizerVars, concurrentVars>>

\* update_user_stats up to and including find_one
StatsRead(p) ==
    /\ inflight[p].op = "POST /reviews"
    /\ inflight[p].pc = "read"
    /\ inflight' = [inflight EXCEPT ![p] =
          IF ReadUserForStats(users, inflight[p].user_id) = PyNone
          THEN [@ EXCEPT !.pc = "done"]
          ELSE [@ EXCEPT !.pc = "write",
                         !.user = ReadUserForStats(users, inflight[p].user_id)]]
    /\ UNCHANGED <<users, reviews, born, deleted, now, last>>
    /\ UNCHANGED <<handlerVars, normalizerVars, concurrentVars>>

\* update_user_stats from the computation of the new values on, and the
\* response of the route
StatsWrite(p) ==
    /\ inflight[p].op = "POST /reviews"
    /\ inflight[p].pc = "write"
    /\ users' = WriteUserStats(users, now, inflight[p].user_id, inflight[p].user,
                               inflight[p].data.matchScore).users
    /\ inflight' = [inflight EXCEPT ![p] = [@ EXCEPT !.pc = "done"]]
    /\ UNCHANGED <<reviews, born, deleted, now, last>>
    /\ UNCHANGED <<handlerVars, normalizerVars, concurrentVars>>

\* the request has been answered and its thread takes the next one
Finish(p) ==
    /\ inflight[p].pc = "done"
    /\ inflight' = [inflight EXCEPT ![p] = Idle]
    /\ UNCHANGED <<users, reviews, born, deleted, now, last>>
    /\ UNCHANGED <<handlerVars, normalizerVars, concurrentVars>>

\* calls of create_user and update_user at the same time; update_user is
\* one update_one, a step of its own among the others
UserRaceNext ==
    \/ Tick
    \/ UpdateUser
    \/ \E p \in RequestIds :
        \/ BeginCreateUser(p)
        \/ CreateUserCheck(p)
        \/ CreateUserInsert(p)
        \/ Finish(p)

SpecUserRace == ConcurrentStoreInit /\ [][UserRaceNext]_vars

\* requests POST /reviews at the same time, for the users create_user has made
ReviewRaceNext ==
    \/ Tick
    \/ CreateUser
    \/ \E p \in RequestIds :
        \/ BeginCreateReview(p)
        \/ ReviewInsert(p)
        \/ StatsRead(p)
        \/ StatsWrite(p)
        \/ Finish(p)

SpecReviewRace == ConcurrentStoreInit /\ [][ReviewRaceNext]_vars

----------------------------------------------------------------------------
(* Properties *)

\* the keys of an analysis result
ResultKeys == {"jd_match", "missing_keywords", "profile_summary"}

\* x is a list whose elements are all str
IsListOfStr(x) == x.t = "list" /\ \A i \in 1..Len(x.v) : x.v[i].t = "str"

\* an outcome of parse_ai_response that returns a dict of the declared kinds
WellTyped(outcome) ==
    /\ outcome.ret.jd_match.t = "str"
    /\ IsListOfStr(outcome.ret.missing_keywords)
    /\ outcome.ret.profile_summary.t = "str"

\* C1: parse_ai_response never raises: for every raw model output it
\* returns a mapping with exactly the keys jd_match, missing_keywords and
\* profile_summary.
C1_NormalizerTotal ==
    /\ result # Unset => ~result.raised /\ DOMAIN result.ret = ResultKeys
    /\ alt_result # Unset => ~alt_result.raised /\ DOMAIN alt_result.ret = ResultKeys

\* a text with "{" and no JSON in it has gone through the except clause
C1_Witness ==
    /\ raw = <<"{", "a">>
    /\ result # Unset
    /\ ~result.raised
    /\ StartsWith(result.ret.profile_summary.v, <<"E","r","r","o","r"," ","p","a","r","s","i","n",
                                                  "g"," ","r","e","s","p","o","n","s","e",":"," ",
                                                  "E","x","p","e","c","t","i","n","g"," ","v","a",
                                                  "l","u","e">>)

\* C2: for every raw model output the result has jd_match a string,
\* missing_keywords a sequence of strings and profile_summary a string, also
\* when the JSON gives the keyword field as a number, null, an object or a
\* list with elements that are not strings.
C2_FieldsOfDeclaredKind ==
    /\ result # Unset => ~result.raised /\ WellTyped(result)
    /\ alt_result # Unset => ~alt_result.raised /\ WellTyped(alt_result)

\* C9: a well-formed JSON object with the primary key names, a list under
\* MissingKeywords and strings under the other two, normalizes to exactly
\* those three values, the list in its order.
C9_PrimaryKeysExtracted ==
    /\ ( /\ result # Unset
         /\ fields # Unset
         /\ fields[1].t = "str"
         /\ fields[2].t = "list"
         /\ fields[3].t = "str" )
       => result = Return([jd_match |-> fields[1],
                           missing_keywords |-> fields[2],
                           profile_summary |-> fields[3]])
    /\ ( /\ result # Unset
         /\ raw = <<"{","\"","J","D"," ","M","a","t","c","h","\"",":","\"","6","0","%","\"",",",
                    "\"","M","i","s","s","i","n","g","K","e","y","w","o","r","d","s","\"",":","[",
                    "\"","A","W","S","\"",",","\"","K","u","b","e","r","n","e","t","e","s","\"",
                    "]",",","\"","P","r","o","f","i","l","e"," ","S","u","m","m","a","r","y","\"",
                    ":","\"","G","o","o","d"," ","b","a","c","k","e","n","d"," ","f","i","t","\"",
                    "}">> )
       => result = Return([jd_match |-> PyStr(<<"6","0","%">>),
                           missing_keywords |-> PyList(<<PyStr(<<"A","W","S">>), PyStr(<<"K","u",
                                                                                         "b","e",
                                                                                         "r","n",
                                                                                         "e","t",
                                                                                         "e","s">>)>>),
                           profile_summary |-> PyStr(<<"G","o","o","d"," ","b","a","c","k","e",
                                                       "n","d"," ","f","i","t">>)])

\* the object of the scenario, written by json.dumps, has been normalized
C9_Witness ==
    /\ fields = <<PyStr(<<"6","0","%">>), PyList(<<PyStr(<<"A","W","S">>), PyStr(<<"K","u","b",
                                                                                   "e","r","n",
                                                                                   "e","t","e",
                                                                                   "s">>)>>),
                  PyStr(<<"G","o","o","d"," ","b","a","c","k","e","n","d"," ","f","i","t">>)>>
    /\ result # Unset
    /\ result.ret.missing_keywords.v = <<PyStr(<<"A","W","S">>), PyStr(<<"K","u","b","e","r","n",
                                                                         "e","t","e","s">>)>>

\* C10: a JSON object with the secondary key names normalizes to the same
\* result as the object with the same values under the primary key names.
C10_SecondaryKeysAgree ==
    (fields # Unset /\ result # Unset /\ alt_result # Unset) => alt_result = result

\* both objects have been normalized and the keywords, given as one string
\* under missing_keywords, came out split
C10_Witness ==
    /\ fields = <<PyInt(60), PyStr(<<"P","y","t","h","o","n",","," ","D","o","c","k","e","r",",",
                                     " "," ","A","W","S">>), PyNone>>
    /\ result # Unset
    /\ alt_result # Unset
    /\ alt_result.ret.jd_match = PyStr(<<"6","0">>)
    /\ alt_result.ret.missing_keywords
           = PyList(<<PyStr(<<"P","y","t","h","o","n">>), PyStr(<<"D","o","c","k","e","r">>), PyStr(<<"A",
                                                                                                      "W",
                                                                                                      "S">>)>>)
    /\ alt_result.ret.profile_summary = PyStr(<<"N","o","n","e">>)

\* the model output after strip() and the removal of the fences
CleanedText(text) == StripFences(Strip(text))

\* C11: for any content and any language tag, parse_ai_response gives the
\* content wrapped in code-fence markers with the tag the same result as
\* the content unwrapped, for JSON content and for content without JSON.
C11_FencedSameAsUnwrapped ==
    (fenced # Unset /\ result # Unset) => fenced.outcome = result

\* the n-th comma of s, as a 0-based index
NthComma(s, n) ==
    CHOOSE i \in 0..(Len(s) - 1) :
        /\ s[i + 1] = ","
        /\ Cardinality({k \in 0..(i - 1) : s[k + 1] = ","}) = n - 1

\* the pieces of s between its commas, each trimmed
TrimmedPieces(s) ==
    LET n == Cardinality({k \in 1..Len(s) : s[k] = ","})
    IN  [j \in 1..(n + 1) |->
            Strip(Slice(s, IF j = 1 THEN 0 ELSE NthComma(s, j - 1) + 1,
                           IF j = n + 1 THEN Len(s) ELSE NthComma(s, j)))]

IsNonEmptyText(s) == s # << >>

\* the keywords a string stands for: its trimmed pieces that are not empty,
\* in their order
KeywordsOf(s) ==
    PyList([j \in 1..Len(SelectSeq(TrimmedPieces(s), IsNonEmptyText)) |->
                PyStr(SelectSeq(TrimmedPieces(s), IsNonEmptyText)[j])])

\* C12: when the parsed keyword field is one string, missing_keywords is
\* the sequence of its comma-separated pieces, each trimmed, the empty
\* ones dropped, in their order.
C12_KeywordStringSplit ==
    /\ (fields # Unset /\ fields[2].t = "str" /\ result # Unset) =>
           result.ret.missing_keywords = KeywordsOf(fields[2].v)
    /\ (fields # Unset /\ fields[2].t = "str" /\ alt_result # Unset) =>
           alt_result.ret.missing_keywords = KeywordsOf(fields[2].v)
    /\ (result # Unset
        /\ raw = <<"H","e","r","e"," ","i","s"," ","t","h","e"," ","r","e","s","u","l","t",":",
                   " ","{","\"","j","d","_","m","a","t","c","h","\"",":"," ","\"","7","5","%",
                   "\"",","," ","\"","m","i","s","s","i","n","g","_","k","e","y","w","o","r","d",
                   "s","\"",":"," ","\"","P","y","t","h","o","n",","," ","D","o","c","k","e","r",
                   ","," "," ","A","W","S","\"","}"," ","T","h","a","n","k","s",".">>) =>
           result.ret.missing_keywords
               = PyList(<<PyStr(<<"P","y","t","h","o","n">>), PyStr(<<"D","o","c","k","e","r">>), PyStr(<<"A",
                                                                                                          "W",
                                                                                                          "S">>)>>)

\* a keyword string with empty pieces and inner blanks has been split
C12_Witness ==
    /\ fields # Unset
    /\ fields[2] = PyStr(<<",","a",",",","," ","b"," ","c"," ",",">>)
    /\ result # Unset
    /\ result.ret.missing_keywords = PyList(<<PyStr(<<"a">>), PyStr(<<"b"," ","c">>)>>)

\* C13: the result of parse_ai_response, written as JSON and passed
\* through parse_ai_response again, comes back with the same jd_match,
\* missing_keywords and profile_summary.
C13_NormalizeIdempotent ==
    again # Unset =>
        /\ ~again.raised
        /\ again.ret.jd_match = result.ret.jd_match
        /\ again.ret.missing_keywords = result.ret.missing_keywords
        /\ again.ret.profile_summary = result.ret.profile_summary

\* the result of a fenced, single-quoted object has gone through again
C13_Witness ==
    /\ raw = <<Backquote,Backquote,Backquote,"j","s","o","n","\n","{","'","J","D"," ","M","a","t",
               "c","h","'",":","'","4","0","%","'",",","'","M","i","s","s","i","n","g","K","e",
               "y","w","o","r","d","s","'",":","[","]",",","'","P","r","o","f","i","l","e"," ",
               "S","u","m","m","a","r","y","'",":","'","N","e","e","d","s"," ","m","o","r","e",
               " ","c","l","o","u","d"," ","e","x","p","e","r","i","e","n","c","e","'","}","\n",
               Backquote,Backquote,Backquote>>
    /\ again # Unset
    /\ again.ret.jd_match = PyStr(<<"4","0","%">>)
    /\ again.ret.profile_summary = PyStr(<<"N","e","e","d","s"," ","m","o","r","e"," ","c","l",
                                           "o","u","d"," ","e","x","p","e","r","i","e","n","c",
                                           "e">>)

\* C14: when the cleaned model output has no "{", the result is '0%', no
\* keywords, and as summary the cleaned text if it has at most 500
\* characters, else its first 500 characters followed by "...".
C14_NoJsonFallback ==
    (result # Unset /\ ~Contains(CleanedText(raw), <<"{">>)) =>
        result = Return(
            [jd_match |-> PyStr(<<"0","%">>),
             missing_keywords |-> PyList(<< >>),
             profile_summary |-> PyStr(
                 IF Len(CleanedText(raw)) <= 500 THEN CleanedText(raw)
                 ELSE SubSeq(CleanedText(raw), 1, 500) \o <<".",".",".">>)])

\* a text of 520 characters came back as 500 characters and the marker
C14_Witness ==
    /\ Len(raw) = 520
    /\ result # Unset
    /\ Len(result.ret.profile_summary.v) = 503
    /\ EndsWith(result.ret.profile_summary.v, <<".",".",".">>)
    /\ result.ret.jd_match = PyStr(<<"0","%">>)

RECURSIVE QuoteFree(_)
\* no string of the value holds a quote character or a backslash
QuoteFree(x) ==
    CASE x.t = "str" -> \A k \in 1..Len(x.v) : x.v[k] \notin {"'", "\"", "\\"}
      [] x.t = "list" -> \A k \in 1..Len(x.v) : QuoteFree(x.v[k])
      [] x.t = "dict" -> \A k \in 1..Len(x.v) :
                             QuoteFree(PyStr(x.v[k][1])) /\ QuoteFree(x.v[k][2])
      [] OTHER -> TRUE

C16_KeyPriorityAndDefaults ==
    /\ (fields # Unset /\ result # Unset) =>
        /\ fields[1] = Absent => result.ret.jd_match = PyStr(<<"0","%">>)
        /\ fields[2] = Absent => result.ret.missing_keywords = PyList(<< >>)
        /\ fields[3] = Absent => result.ret.profile_summary = PyStr(<<"N","o"," ","s","u","m","m",
                                                                      "a","r","y"," ","a","v","a",
                                                                      "i","l","a","b","l","e">>)
    /\ (fields # Unset /\ alt_result # Unset) =>
        /\ fields[1] = Absent => alt_result.ret.jd_match = PyStr(<<"0","%">>)
        /\ fields[2] = Absent => alt_result.ret.missing_keywords = PyList(<< >>)
        /\ fields[3] = Absent =>
               alt_result.ret.profile_summary = PyStr(<<"N","o"," ","s","u","m","m","a","r","y",
                                                        " ","a","v","a","i","l","a","b","l","e">>)
    /\ (result # Unset /\ raw = <<"{","}">>) =>
           result = Return([jd_match |-> PyStr(<<"0","%">>),
                            missing_keywords |-> PyList(<< >>),
                            profile_summary |-> PyStr(<<"N","o"," ","s","u","m","m","a","r","y",
                                                        " ","a","v","a","i","l","a","b","l","e">>)])
    /\ (result # Unset
        /\ raw = <<"{","\"","j","d","_","m","a","t","c","h","\"",":"," ","\"","1","0","%","\"",
                   ","," ","\"","J","D"," ","M","a","t","c","h","\"",":"," ","\"","9","0","%",
                   "\"",","," ","\"","m","i","s","s","i","n","g","_","k","e","y","w","o","r","d",
                   "s","\"",":"," ","[","\"","x","\"","]",","," ","\"","M","i","s","s","i","n",
                   "g","K","e","y","w","o","r","d","s","\"",":"," ","[","\"","y","\"","]",","," ",
                   "\"","p","r","o","f","i","l","e","_","s","u","m","m","a","r","y","\"",":"," ",
                   "\"","s","e","c","o","n","d","\"",","," ","\"","P","r","o","f","i","l","e"," ",
                   "S","u","m","m","a","r","y","\"",":"," ","\"","f","i","r","s","t","\"","}">>) =>
           result = Return([jd_match |-> PyStr(<<"9","0","%">>),
                            missing_keywords |-> PyList(<<PyStr(<<"y">>)>>),
                            profile_summary |-> PyStr(<<"f","i","r","s","t">>)])

\* an object with every field under both names has been normalized
C16_Witness ==
    /\ Contains(raw, <<"\"","j","d","_","m","a","t","c","h","\"",":"," ","\"","1","0","%","\"",
                       ","," ","\"","J","D"," ","M","a","t","c","h","\"",":"," ","\"","9","0","%",
                       "\"">>)
    /\ result # Unset
    /\ result.ret.jd_match = PyStr(<<"9","0","%">>)
    /\ result.ret.profile_summary = PyStr(<<"f","i","r","s","t">>)

\* the text from the first "{" to the last "}" of the cleaned text; empty
\* when the last "}" is missing or before the first "{"
Candidate(text) ==
    Slice(text, Find(text, <<"{">>), RFind(text, <<"}">>) + 1)

\* both parse attempts fail on the candidate
BothParsesFail(text) ==
    /\ json_loads(Candidate(text)).raised
    /\ json_loads(RepairQuotes(Candidate(text))).raised

\* C17: on every fallback path (no "{", a "{" without a later "}", the
\* last "}" before the first "{", both parse attempts failed) the result
\* has jd_match '0%' and no keywords; its summary is the truncated text
\* when there is no "{", else a diagnostic beginning 'Error parsing
\* response:'.
C17_FallbackPaths ==
    /\ (result # Unset /\ ~Contains(CleanedText(raw), <<"{">>)) =>
        /\ ~result.raised
        /\ result.ret.jd_match = PyStr(<<"0","%">>)
        /\ result.ret.missing_keywords = PyList(<< >>)
        /\ result.ret.profile_summary.v \in
               { CleanedText(raw), SubSeq(CleanedText(raw), 1, Min(500, Len(CleanedText(raw)))) \o <<".",
                                                                                                     ".",
                                                                                                     ".">> }
    /\ ( /\ result # Unset
         /\ Contains(CleanedText(raw), <<"{">>)
         /\ \/ RFind(CleanedText(raw), <<"}">>) < Find(CleanedText(raw), <<"{">>)
            \/ BothParsesFail(CleanedText(raw)) ) =>
        /\ ~result.raised
        /\ result.ret.jd_match = PyStr(<<"0","%">>)
        /\ result.ret.missing_keywords = PyList(<< >>)
        /\ StartsWith(result.ret.profile_summary.v, <<"E","r","r","o","r"," ","p","a","r","s","i",
                                                      "n","g"," ","r","e","s","p","o","n","s","e",
                                                      ":">>)

\* the last "}" before the first "{": the diagnostic of the empty candidate
C17_Witness ==
    /\ raw = <<"}"," ","n","o"," ","j","s","o","n"," ","h","e","r","e"," ","{">>
    /\ result # Unset
    /\ result.ret.jd_match = PyStr(<<"0","%">>)
    /\ result.ret.profile_summary
           = PyStr(<<"E","r","r","o","r"," ","p","a","r","s","i","n","g"," ","r","e","s","p","o",
                     "n","s","e",":"," ","E","x","p","e","c","t","i","n","g"," ","v","a","l","u",
                     "e",":"," ","l","i","n","e"," ","1"," ","c","o","l","u","m","n"," ","1"," ",
                     "(","c","h","a","r"," ","0",")">>)

\* the request passes the checks of the form and the file
ValidRequest ==
    /\ request.has_jd
    /\ request.has_file
    /\ Strip(request.job_description) # << >>
    /\ request.filename # << >>
    /\ EndsWith(Lower(request.filename), <<".","p","d","f">>)

\* the extraction gives a text that is not blank
ReadablePdf == ~pdf.raises /\ Strip(pdf.text) # << >>

\* the handler has returned after every attempt it made has failed
AllAttemptsFailed == pc = "done" /\ sent # << >> /\ Len(failures) = Len(sent)

\* the handler has returned after an attempt has succeeded
AttemptSucceeded == pc = "done" /\ ai_response # PyNone

\* the prompt of the request, written out
ExpectedPrompt == PromptHead \o pdf.text \o PromptMid \o request.job_description \o PromptTail

\* C3: when every invocation fails, analyze_resume gives up after exactly
\* max_retries + 1 = 3 attempts, does not raise, does not call the
\* normalizer, and returns a three-field fallback whose summary says the AI
\* service is unavailable and states the length of the resume text.
C3_ExhaustionFallback ==
    /\ Len(failures) <= max_retries + 1
    /\ (Len(failures) = max_retries + 1 /\ ai_response = PyNone) => pc = "done"
    /\ AllAttemptsFailed =>
        /\ Len(sent) = max_retries + 1
        /\ normalized = << >>
        /\ response.status = 200
        /\ DOMAIN response.body = ResultKeys
        /\ Contains(response.body.profile_summary.v,
                    <<"u","n","a","v","a","i","l","a","b","l","e"," ","d","u","e"," ","t","o"," ",
                      "A","I"," ","s","e","r","v","i","c","e"," ","i","s","s","u","e","s">>)
        /\ Contains(response.body.profile_summary.v,
                    <<"c","o","n","t","a","i","n","s"," ">> \o IntToStr(Len(pdf.text)) \o <<" ",
                                                                                            "c",
                                                                                            "h",
                                                                                            "a",
                                                                                            "r",
                                                                                            "a",
                                                                                            "c",
                                                                                            "t",
                                                                                            "e",
                                                                                            "r",
                                                                                            "s">>)

\* three failed attempts on a resume of 29 characters
C3_Witness ==
    /\ AllAttemptsFailed
    /\ Len(failures) = 3
    /\ Len(pdf.text) = 29
    /\ Contains(response.body.profile_summary.v, <<"R","e","s","u","m","e"," ","c","o","n","t",
                                                   "a","i","n","s"," ","2","9"," ","c","h","a",
                                                   "r","a","c","t","e","r","s"," ","o","f"," ",
                                                   "t","e","x","t">>)

\* C4: the prompt is built exactly once, before the first invocation; every
\* attempt sends that prompt; there are never more than 3 invocations.
C4_OnePromptAtMostThreeAttempts ==
    /\ builds <= 1
    /\ sent # << >> => builds = 1
    /\ \A i \in 1..Len(sent) : sent[i] = ExpectedPrompt
    /\ Len(sent) <= max_retries + 1

\* the third attempt has been made, with the prompt built once
C4_Witness ==
    /\ Len(sent) = 3
    /\ builds = 1
    /\ sent[3] = sent[1]
    /\ Contains(sent[3], <<"J","O","B"," ","D","E","S","C","R","I","P","T","I","O","N",":","\n",
                           "N","e","e","d"," ","P","y","t","h","o","n"," ","d","e","v","e","l",
                           "o","p","e","r">>)

\* C5: once an attempt succeeds there is no further invocation and no
\* further delay; the text of that attempt is passed to parse_ai_response
\* exactly once and the response is built from its result.
C5_SuccessEndsTheLoop ==
    /\ ai_response # PyNone =>
        /\ Len(sent) = Len(failures) + 1
        /\ sleeps = Len(failures)
        /\ Len(normalized) <= 1
    /\ AttemptSucceeded =>
        /\ normalized = <<ai_response.v>>
        /\ parsed_response # Unset
        /\ response.status = 200
        /\ response.body.jd_match = parsed_response.jd_match
        /\ response.body.missing_keywords = parsed_response.missing_keywords
        /\ response.body.profile_summary
               \in {parsed_response.profile_summary, CompletedSummary(resume_text)}
        /\ response # ExhaustedFallback(resume_text)

\* the second attempt succeeded and its JSON is in the response
C5_Witness ==
    /\ AttemptSucceeded
    /\ Len(failures) = 1
    /\ Len(sent) = 2
    /\ sleeps = 1
    /\ response.body.jd_match = PyStr(<<"6","0","%">>)
    /\ response.body.profile_summary = PyStr(<<"G","o","o","d"," ","b","a","c","k","e","n","d",
                                               " ","f","i","t">>)

\* C6: a request that passes the input checks and whose PDF gives a text
\* that is not blank is answered with status 200 and a body holding
\* jd_match, missing_keywords and profile_summary, whatever the model does.
C6_ValidRequestAnswered ==
    (pc = "done" /\ ValidRequest /\ ReadablePdf) =>
        /\ response.status = 200
        /\ ResultKeys \subseteq DOMAIN response.body

\* a valid request answered 200 after the model gave malformed JSON
C6_Witness ==
    /\ pc = "done"
    /\ ValidRequest
    /\ ReadablePdf
    /\ ai_response = PyStr(<<"{","\"","J","D"," ","M","a","t","c","h","\"",":"," ","\"","1","0",
                             "%","\""," ","\"","M","i","s","s","i","n","g","K","e","y","w","o",
                             "r","d","s","\"",":"," ","[","]","}">>)
    /\ response.status = 200
    /\ response.body.jd_match = PyStr(<<"0","%">>)

\* C7: a request without a job description or with a blank one, without a
\* resume file, with an unnamed file or one that is not a .pdf, or whose
\* extracted text is blank, is answered 400 with an error message; the
\* prompt is not built and the model is not invoked.
C7_InvalidRequestRejected ==
    /\ (~ValidRequest \/ (~pdf.raises /\ Strip(pdf.text) = << >>)) =>
        /\ builds = 0
        /\ sent = << >>
        /\ sleeps = 0
        /\ normalized = << >>
        /\ pc = "done" =>
            /\ response.status = 400
            /\ DOMAIN response.body = {"error"}
            /\ response.body.error.v # << >>

\* a well-formed request whose PDF has only whitespace has been rejected
C7_Witness ==
    /\ pc = "done"
    /\ ValidRequest
    /\ pdf = [raises |-> FALSE, text |-> <<" ","\n"," ">>]
    /\ response.status = 400
    /\ sent = << >>

\* the model output could not be parsed: there is no "{" in it, or the
\* loading of the text between the braces failed
Unparsable(text) ==
    \/ Find(StripFences(Strip(text)), <<"{">>) = -1
    \/ ParseBody(text).raised

\* C8: whenever a failure is absorbed (every attempt failed, or the model
\* output could not be parsed) the caller receives a three-field result
\* whose match is '0%' and whose summary is a text that is not empty.
C8_DegradedScoreZero ==
    (AllAttemptsFailed \/ (AttemptSucceeded /\ Unparsable(ai_response.v))) =>
        /\ DOMAIN response.body = ResultKeys
        /\ response.body.jd_match = PyStr(<<"0","%">>)
        /\ response.body.profile_summary.v # << >>

\* C18: once the deadline of the request has elapsed during the retry loop,
\* the loop makes no further attempt and the handler returns without
\* waiting again.
C18_DeadlineEndsTheLoop ==
    [][(expired /\ pc \in {"invoke", "sleep"}) =>
           (sent' = sent /\ sleeps' = sleeps /\ pc' = "done")]_vars

RECURSIVE RunFrom(_, _)
\* a call run on its own from f, the provider doing the given outcomes
RunFrom(f, outcomes) ==
    IF f.pc = "done" THEN f
    ELSE IF f.pc # "invoke"
    THEN RunFrom(CHOOSE g \in {CallStep(f, ProviderText(<< >>))} : TRUE, outcomes)
    ELSE IF outcomes = << >> THEN f
    ELSE RunFrom(CHOOSE g \in {CallStep(f, Head(outcomes))} : TRUE, Tail(outcomes))

\* call j can take its next step: the condition under which Step(j) is
\* enabled, written out
CanStep(j) ==
    /\ calls[j].pc # "done"
    /\ \E outcome \in ConcurrentOutcomes :
           CallStep(Locals(calls, j), outcome) # calls[j]

\* C19: concurrent requests share no mutable state: in every interleaving
\* each response is the one the request gets when run alone on its own
\* inputs and invocation outcomes, each request sends at most 3 prompts,
\* all its own, and a request in its retry delay does not keep the other
\* from its next step.
C19_CallsIndependent ==
    \A i \in CallIds :
        /\ Len(calls[i].sent) <= 3
        /\ \A k \in 1..Len(calls[i].sent) :
               calls[i].sent[k] = PromptHead \o calls[i].pdf.text \o PromptMid
                                      \o calls[i].request.job_description \o PromptTail
        /\ calls[i].pc = "done" =>
               calls[i].response
                   = RunFrom(NewCall(calls[i].request, calls[i].pdf), calls[i].outcomes).response
        /\ \A j \in CallIds \ {i} :
               (calls[i].pc = "sleep" /\ calls[j].pc # "done") => CanStep(j)

\* the second request has been answered from the model's JSON while the
\* first, with other inputs, is in its retry delay
C19_Witness ==
    /\ calls # << >>
    /\ calls[1].pc = "sleep"
    /\ calls[2].pc = "done"
    /\ calls[1].request # calls[2].request
    /\ calls[1].pdf # calls[2].pdf
    /\ Len(calls[2].failures) = 1
    /\ calls[2].response.status = 200
    /\ calls[2].response.body.jd_match = PyStr(<<"6","0","%">>)

\* C20: time.sleep(1) runs once after each failed attempt that is not the
\* last one and at no other point: k failures followed by a success give k
\* delays (k <= 2), three failures give 2 delays.
C20_DelayAfterEachFailedButLast ==
    /\ pc = "sleep" =>
        /\ ai_response = PyNone
        /\ Len(failures) = Len(sent)
        /\ Len(failures) <= 2
        /\ sleeps = Len(failures) - 1
    /\ pc = "invoke" => sleeps = Len(failures) /\ Len(sent) = Len(failures)
    /\ AttemptSucceeded => sleeps = Len(failures) /\ sleeps <= 2
    /\ AllAttemptsFailed => Len(failures) = 3 /\ sleeps = 2

\* the third attempt succeeded after two failures and two delays
C20_Witness ==
    /\ AttemptSucceeded
    /\ Len(failures) = 2
    /\ Len(sent) = 3
    /\ sleeps = 2


\* the post-normalization check of the handler applies to the parsed result
ZeroMatch(parsed) == parsed.jd_match \in {PyStr(<< >>), PyStr(<<"0","%">>)}

EmptyOrErrorSummary(parsed) ==
    parsed.profile_summary = PyStr(<< >>)
        \/ Contains(parsed.profile_summary.v, <<"E","r","r","o","r">>)

\* C21: the check after the normalizer never changes jd_match or
\* missing_keywords; it changes profile_summary only when jd_match is empty
\* or "0%" and the summary is empty or contains "Error"; in every other case
\* the body of the response is the normalizer's output itself.
C21_PostCheckFrame ==
    (pc = "done" /\ parsed_response # Unset) =>
        /\ response.status = 200
        /\ DOMAIN response.body = ResultKeys
        /\ response.body.jd_match = parsed_response.jd_match
        /\ response.body.missing_keywords = parsed_response.missing_keywords
        /\ response.body # parsed_response =>
               ZeroMatch(parsed_response) /\ EmptyOrErrorSummary(parsed_response)
        /\ ~ZeroMatch(parsed_response) => response.body = parsed_response

\* an empty summary of a zero match was replaced, and the keyword field
\* the model gave went through as it was
C21_Witness ==
    /\ pc = "done"
    /\ parsed_response # Unset
    /\ parsed_response.jd_match = PyStr(<<"0","%">>)
    /\ parsed_response.profile_summary = PyStr(<< >>)
    /\ parsed_response.missing_keywords = PyInt(5)
    /\ response.body.missing_keywords = PyInt(5)
    /\ response.body.profile_summary # parsed_response.profile_summary

\* the failure get_gemini_response raises for the given cause
ModelFailure(cause) == <<"A","I"," ","m","o","d","e","l"," ","e","r","r","o","r",":"," ">> \o cause

\* C22: get_gemini_response either returns a text that is not empty or
\* raises one failure carrying a cause; an error of the transport, an error
\* of the provider and an empty text all raise it; the retry loop treats
\* every failure the same way, whatever its cause.
C22_OneFailureOutcome ==
    /\ \A outcome \in ProviderOutcomes :
        \E got \in {get_gemini_response(formatted_prompt, outcome)} :
            /\ got.raised <=> (outcome.kind # "text" \/ outcome.text = << >>)
            /\ ~got.raised => got.ret = outcome.text /\ got.ret # << >>
            /\ got.raised =>
                   /\ StartsWith(got.exc, ModelFailure(<< >>))
                   /\ Len(got.exc) > Len(ModelFailure(<< >>))
    /\ \A i \in 1..Len(failures) :
        /\ StartsWith(failures[i], ModelFailure(<< >>))
        /\ sent[i] = formatted_prompt
        /\ (i < Len(failures) \/ ai_response # PyNone) => Len(sent) > i
    /\ (failures # << >> /\ pc = "done") =>
        (Len(failures) = max_retries + 1
             <=> response = ExhaustedFallback(resume_text))

\* a transport error, a provider error and an empty text, one after the
\* other, each followed by the same next step
C22_Witness ==
    /\ pc = "done"
    /\ failures = << ModelFailure(<<"5","0","3"," ","S","e","r","v","i","c","e"," ","U","n","a",
                                    "v","a","i","l","a","b","l","e">>),
                     ModelFailure(<<"4","2","9"," ","R","e","s","o","u","r","c","e"," ","e","x",
                                    "h","a","u","s","t","e","d">>),
                     ModelFailure(<<"E","m","p","t","y"," ","r","e","s","p","o","n","s","e"," ",
                                    "f","r","o","m"," ","A","I"," ","m","o","d","e","l">>) >>
    /\ Len(sent) = 3
    /\ response = ExhaustedFallback(resume_text)

\* C23: the 500 response whose missing_keywords is ["Analysis failed"] is
\* never returned: the retry loop is left with a text that is not empty or
\* by returning the fallback of the exhausted attempts.
C23_NoResponseBranchUnreachable ==
    /\ response # NoResponseFallback
    /\ pc = "respond" => ~Falsy(ai_response)
    /\ (pc = "done" /\ sent # << >>) =>
        \/ ai_response.t = "str" /\ ai_response.v # << >>
        \/ ai_response = PyNone /\ response = ExhaustedFallback(resume_text)

\* the provider answered every attempt with an empty text and the handler
\* returned the fallback of the exhausted attempts
C23_Witness ==
    /\ pc = "done"
    /\ Len(failures) = max_retries + 1
    /\ \A i \in 1..Len(failures) :
           failures[i] = ModelFailure(<<"E","m","p","t","y"," ","r","e","s","p","o","n","s","e",
                                        " ","f","r","o","m"," ","A","I"," ","m","o","d","e","l">>)
    /\ ai_response = PyNone
    /\ response.status = 200

\* the placeholder of the handler for a resume text of n characters
Placeholder(n) ==
    PyStr(<<"R","e","s","u","m","e"," ","a","n","a","l","y","s","i","s"," ","c","o","m","p","l",
            "e","t","e","d","."," ","T","h","e"," ","d","o","c","u","m","e","n","t"," ","c","o",
            "n","t","a","i","n","s"," ">>
          \o IntToStr(n) \o <<" ","c","h","a","r","a","c","t","e","r","s"," ","o","f"," ","p","r",
                              "o","f","e","s","s","i","o","n","a","l"," ","c","o","n","t","e","n",
                              "t",".">>)

\* C24: when parse_ai_response takes its except clause, the summary
\* "Error parsing response: ..." does not reach the caller: the handler
\* puts the placeholder stating the length of the resume text in its place
\* and keeps jd_match "0%" and an empty missing_keywords.
C24_DiagnosticReplaced ==
    (pc = "done" /\ normalized # << >> /\ ParseBody(normalized[1]).raised) =>
        /\ parsed_response # Unset
        /\ response.status = 200
        /\ response.body = [jd_match |-> PyStr(<<"0","%">>),
                            missing_keywords |-> PyList(<< >>),
                            profile_summary |-> Placeholder(Len(resume_text))]
        /\ ~Contains(response.body.profile_summary.v, <<"p","a","r","s","i","n","g"," ","r","e",
                                                        "s","p","o","n","s","e">>)
        /\ ~Contains(response.body.profile_summary.v, <<"p","a","r","s","e"," ","r","e","s","p",
                                                        "o","n","s","e">>)

\* a JSON object with a missing comma made the normalizer fail, on a resume
\* text of 6 characters
C24_Witness ==
    /\ pc = "done"
    /\ normalized = << <<"{","\"","J","D"," ","M","a","t","c","h","\"",":"," ","\"","1","0","%",
                         "\""," ","\"","M","i","s","s","i","n","g","K","e","y","w","o","r","d",
                         "s","\"",":"," ","[","]","}">> >>
    /\ StartsWith(parsed_response.profile_summary.v, <<"E","r","r","o","r"," ","p","a","r","s",
                                                       "i","n","g"," ","r","e","s","p","o","n",
                                                       "s","e",":"," ","E","x","p","e","c","t",
                                                       "i","n","g">>)
    /\ resume_text = <<"P","y","t","h","o","n">>
    /\ response.body.profile_summary = Placeholder(6)

\* the calls of the Review model that take a review id and a user id
OwnerCalls == {"get_review_by_id", "update_review", "delete_review"}

\* the review of the given id is stored with another userId than user_id
StoredForAnother(review_id, user_id) ==
    \E i \in 1..Len(reviews) : reviews[i]._id = review_id /\ reviews[i].userId # user_id

\* C25: get_review_by_id, update_review and delete_review called with the
\* user id U for a review whose stored userId is not U return None, None
\* and False and leave the collection as it is, in every state the calls of
\* any users lead to.
C25_NonOwnerDenied ==
    /\ \A i \in 1..Len(reviews), user_id \in Callers \cup {NotAnId} :
        reviews[i].userId # user_id =>
            /\ get_review_by_id(reviews, reviews[i]._id, user_id) = PyNone
            /\ \A update_data \in ReviewUpdates :
                   update_review(reviews, now, reviews[i]._id, user_id, update_data)
                       = [reviews |-> reviews, out |-> StoreReturn(PyNone)]
            /\ delete_review(reviews, reviews[i]._id, user_id)
                   = [reviews |-> reviews, out |-> StoreReturn(PyBool(FALSE))]
    /\ (last.op \in OwnerCalls /\ StoredForAnother(last.review_id, last.user_id)) =>
        last.out.ret \in {PyNone, PyBool(FALSE)}

\* the second user has asked to update the first user's review and got
\* None; the review is stored as it was
C25_Witness ==
    /\ last.op = "update_review"
    /\ last.user_id = UserIdOf(2)
    /\ last.review_id = ReviewIdOf(1)
    /\ last.data = [jobTitle |-> <<"D","a","t","a"," ","e","n","g","i","n","e","e","r">>]
    /\ last.out.ret = PyNone
    /\ \E i \in 1..Len(reviews) :
        /\ reviews[i]._id = ReviewIdOf(1)
        /\ reviews[i].userId = UserIdOf(1)
        /\ reviews[i] = born[1]

\* the fields an update may not set
CreationFields == {"_id", "userId", "createdAt"}

\* C26: _id, userId and createdAt of a review keep the values of its creation
\* through every call of update_review, whatever update_data holds; an update
\* whose data holds nothing but those fields returns None and changes
\* nothing, updatedAt included.
C26_CreationFieldsKept ==
    /\ \A i \in 1..Len(reviews) :
        \E n \in 1..Len(born) :
            /\ born[n]._id = reviews[i]._id
            /\ born[n].userId = reviews[i].userId
            /\ born[n].createdAt = reviews[i].createdAt
    /\ \A i, j \in 1..Len(reviews) : reviews[i]._id = reviews[j]._id => i = j
    /\ \A review_id \in ReviewIds, user_id \in Callers, update_data \in ReviewUpdates :
        DOMAIN update_data \subseteq CreationFields =>
            update_review(reviews, now, review_id, user_id, update_data)
                = [reviews |-> reviews, out |-> StoreReturn(PyNone)]
    /\ (last.op = "update_review" /\ DOMAIN last.data \subseteq CreationFields) =>
        last.out.ret = PyNone

\* the owner has updated the title with data that also named another _id
\* and userId: the title and updatedAt changed, the rest is as created
C26_Witness ==
    /\ last.op = "update_review"
    /\ last.user_id = UserIdOf(1)
    /\ last.review_id = ReviewIdOf(1)
    /\ last.data = [jobTitle |-> <<"D","a","t","a"," ","e","n","g","i","n","e","e","r">>, userId |-> UserIdOf(2),
                    _id |-> ReviewIdOf(2)]
    /\ last.out.ret # PyNone
    /\ \E i \in 1..Len(reviews) :
        /\ reviews[i]._id = ReviewIdOf(1)
        /\ reviews[i].userId = UserIdOf(1)
        /\ reviews[i].jobTitle = <<"D","a","t","a"," ","e","n","g","i","n","e","e","r">>
        /\ reviews[i].createdAt = 0
        /\ reviews[i].updatedAt = 1

\* the number of stored reviews of the user
ReviewsOf(user_id) ==
    Cardinality({i \in 1..Len(reviews) : reviews[i].userId = user_id})

\* C27: with the requests POST /reviews served one at a time and no review
\* deleted, every request that stores a review adds exactly one to
\* profile.totalReviews of its user, so that totalReviews is the number of
\* the user's stored reviews; a rejected request stores nothing and leaves
\* the statistics as they are.
C27_TotalCountsStoredReviews ==
    /\ Len(reviews) = Len(born)
    /\ \A n \in 1..Len(users) :
        users[n].profile.totalReviews = ReviewsOf(users[n]._id)
    /\ \A n \in 1..Len(users), body \in ReviewBodies \ {<< >>} :
        \E made \in {create_review(reviews, now, ReviewIdOf(Len(born) + 1),
                          SetFields(body, [userId |-> users[n]._id]))} :
            ReviewResponse(made.out).status # 201 => made.reviews = reviews

\* a request POST /reviews for the user has started and not yet returned
InFlightFor(user_id) ==
    \E p \in RequestIds :
        /\ inflight[p].op = "POST /reviews"
        /\ inflight[p].user_id = user_id
        /\ inflight[p].pc # "done"

\* C28: under every interleaving of requests POST /reviews for the same
\* user no update of the statistics is lost: once k requests have completed,
\* totalReviews has grown by k.
C28_NoLostStatsUpdate ==
    \A n \in 1..Len(users) :
        ~InFlightFor(users[n]._id) =>
            users[n].profile.totalReviews = ReviewsOf(users[n]._id)

\* the form data of create_user whose lower-cased email is stored already
EmailTaken(user_data) ==
    \E n \in 1..Len(users) : users[n].email = Lower(GetOr(user_data, "email", << >>))

C30_DeletedUserStaysOut ==
    /\ \A user_id \in deleted :
        /\ get_user_by_id(users, user_id) = PyNone
        /\ \A email \in LoginEmails, password \in LoginPasswords :
            \/ authenticate_user(users, now, email, password).out.ret = PyNone
            \/ authenticate_user(users, now, email, password).out.ret.id # user_id
    /\ last.op \in {"authenticate_user", "get_user_by_id"} =>
        (last.out.ret = PyNone \/ last.out.ret.id \notin deleted)
============================================================================
